---- MODULE Spec2Model ----
(***************************************************************************)
(* Model of the ESP32 temperature datalogger.                              *)
(*                                                                         *)
(* The repository holds two sketches.  Both are modelled; the variable     *)
(* `sketch` says which of the two runs in a behaviour:                     *)
(*   "main"  : ESP32_Temperature_Datalogger.ino       (TFT_eSPI sketch)    *)
(*   "fixed" : ESP32_Temperature_Datalogger_Fixed.ino (LVGL sketch)        *)
(*                                                                         *)
(* Temperatures are integers in units of 1/400 degC, the common            *)
(* denominator of the sensor's 1/16 degC steps and of the 1/100 degC       *)
(* steps of the text the log file holds.  Time is in seconds.              *)
(*                                                                         *)
(* Each task is a sequence of steps; a step is one statement (or one loop  *)
(* iteration) of the code, so that the steps of the two cores interleave   *)
(* as the statements do.                                                   *)
(***************************************************************************)
EXTENDS Integers, Sequences, FiniteSets, TLC

(***************************************************************************)
(* Bounds of the model.                                                    *)
(***************************************************************************)
\* Capacity of the ring store (1000 in both sketches), scaled down.
DATA_BUFFER_SIZE == 3
\* Largest number of channels (10 in both sketches), scaled down.
MAX_SENSORS == 2
\* Rows of the table screen (10 in the main sketch), scaled down.
TABLE_ROWS == 2
\* The chart ranges (3600 s, 6 * 3600 s, 24 * 3600 s) are divided by this,
\* so that the shortest one is shorter than the scaled store's history.
RangeScale == 30
\* Acquisition cycles the sensor task runs in one behaviour.
MaxCycles == 4
\* Environment events in one behaviour: disconnected reads, failed file
\* opens, deep sleeps and power losses (each followed by a reset), chart
\* redraws and touches.
MaxEvents == 2
\* Touches of one behaviour.
MaxTouches == 1
\* The retention duration of the log is 30 days divided by RetainScale.
RetainScale == 21600
\* Wall-clock time at power-on (seconds).
BootTime == 7200

(***************************************************************************)
(* Values                                                                  *)
(***************************************************************************)
TempUnit == 16 * 25
\* DallasTemperature's DEVICE_DISCONNECTED_C, -127 degC.
DEVICE_DISCONNECTED_C == (0 - 127) * TempUnit
\* 20.0625 degC: a 12-bit DS18B20 reading that is no multiple of 0.01 degC.
TempFine == 20 * TempUnit + 25
\* What one channel read can return.
Readings == {DEVICE_DISCONNECTED_C, TempFine}
\* What a float the code never assigned can hold.
Indeterminate == {0, 85 * TempUnit}

Channels == 0 .. (MAX_SENSORS - 1)
Slots == 0 .. (DATA_BUFFER_SIZE - 1)

Min(a, b) == IF a < b THEN a ELSE b
Max(a, b) == IF a > b THEN a ELSE b
Last(s, n) == SubSeq(s, Len(s) - n + 1, Len(s))
Reverse(s) == [k \in 1 .. Len(s) |-> s[Len(s) - k + 1]]

\* struct TempData of the main sketch, zero-initialised as a global.
ZeroData == [timestamp |-> 0, temperatures |-> [i \in Channels |-> 0]]
\* struct SensorData of the Fixed sketch, zero-initialised as a global.
ZeroSensorData == [temperature |-> 0, timestamp |-> 0]

VARIABLES
  sketch,            \* which sketch runs
  clock,             \* time() / now(): wall-clock seconds
  deviceCount,       \* devices on the OneWire bus
  stackJunk,         \* what the stack holds where readSensors' local lies
  \* ---- main sketch: globals
  dataBuffer,        \* TempData dataBuffer[DATA_BUFFER_SIZE]
  dataBufferIndex,   \* write cursor
  dataBufferCount,   \* number of valid entries
  sensorCount,       \* active channels
  sampleInterval,    \* seconds between cycles
  deepSleepEnabled,
  wifiEnabled,
  bluetoothEnabled,
  prefs,             \* Preferences namespace "temp_logger" (flash)
  file,              \* /temp_data.txt: the sequence of its lines
  \* ---- main sketch: sensor task (core 0)
  sPc,               \* position of the sensor task
  newData,           \* readSensors' local TempData
  wakeAt,            \* when the delay() in progress returns
  \* ---- main sketch: display task (core 1)
  dPc,               \* position of the display task
  chartI,            \* drawChartScreen's loop variable i
  chartRegs,         \* the loop's register copies of index and count
  \* ---- Fixed sketch
  tempData,          \* the global TempData tempData
  fPc,               \* position of sensorTask
  fI,                \* sensorTask's loop variable i
  fTemp,             \* sensorTask's local temp
  sensorDataReady,
  settings,          \* the global Settings settings
  settingsFile,      \* whether /settings.json exists (flash)
  tableScrollOffset, \* main: first entry the table shows
  maxTableScroll,    \* main: the largest offset, as the last redraw set it
  lastTouchTime,     \* main: millis() at the last touch, in seconds
  sensorNames,       \* main: the global String sensorNames[]
  spiffsPlan,        \* main: what the calls of SPIFFS.begin will return
  mount,             \* main: the calls setup made to mount, and the result
  bootAt,            \* the clock when millis() was 0
  \* ---- history (not program state)
  appended,          \* main: samples readSensors stored since this boot
  committed,         \* main: samples saveData wrote to the file
  before,            \* main: the ring store when the current append began
  lastSave,          \* main: outcome of the last saveData
  replayed,          \* main: loadData has run since this boot
  chartSeen,         \* main: timestamps the chart loop has read
  fAccepted,         \* Fixed: per channel, the readings stored
  fRead,             \* Fixed: per channel, what this cycle's read returned
  fBefore,           \* Fixed: the channel's ring when the current append began
  cycles,            \* acquisition cycles started in this behaviour
  bootCycles,        \* acquisition cycles started since this boot
  faults,            \* disconnected reads and failed file opens so far
  restarts,          \* deep sleeps so far
  draws,             \* chart redraws started so far
  touches,           \* touches and slider moves so far
  loaded,            \* the settings as the last load left them
  saved,             \* the settings the last completed save wrote
  saveOld,           \* what a load returned when the current save began
  saveNew,           \* the settings in memory when the current save began
  interrupted,       \* a power loss cut the last save short
  lastTouch,         \* the handler that ran last, and when
  oob                \* an array was indexed past its end

envVars == <<sketch, deviceCount, stackJunk, spiffsPlan>>
ringVars == <<dataBuffer, dataBufferIndex, dataBufferCount>>
settingsVars ==
  <<sensorCount, sampleInterval, deepSleepEnabled, sensorNames>>
radioVars == <<wifiEnabled, bluetoothEnabled>>
flashVars == <<prefs, settingsFile>>
userVars ==
  <<touches, loaded, saved, saveOld, saveNew, interrupted, lastTouch>>
displayVars == <<dPc, chartI, chartRegs, chartSeen>>
tableVars == <<tableScrollOffset, maxTableScroll>>
sleepVars == <<lastTouchTime, bootAt>>
fixedVars == <<tempData, fPc, fI, fTemp, sensorDataReady,
               fAccepted, fRead, fBefore>>
vars == <<envVars, clock, ringVars, settingsVars, file, sPc, newData,
          displayVars, fixedVars, appended, committed, before, lastSave,
          replayed, cycles, bootCycles, faults, restarts, draws, radioVars,
          flashVars, userVars, wakeAt, settings, oob, tableVars, sleepVars,
          mount>>

\* Environment events so far in this behaviour.
Events == faults + restarts + draws + touches

(***************************************************************************)
(* Main sketch: the ring store's index arithmetic.                         *)
(***************************************************************************)
\* dataBuffer[dataBufferIndex] = newData
StoreAt_Newest(buf, idx, d) ==
  [buf EXCEPT ![(idx - 1 + DATA_BUFFER_SIZE) % DATA_BUFFER_SIZE] = d]

StoreAt(buf, idx, d) == [buf EXCEPT ![idx] = d]

\* dataBufferIndex = (dataBufferIndex + 1) % DATA_BUFFER_SIZE
NextIndex_Stuck(idx) == idx

NextIndex(idx) == (idx + 1) % DATA_BUFFER_SIZE

\* if (dataBufferCount < DATA_BUFFER_SIZE) dataBufferCount++
NextCount_Unbounded(cnt) == cnt + 1

NextCount(cnt) == IF cnt < DATA_BUFFER_SIZE THEN cnt + 1 ELSE cnt

\* The slot of the i-th newest entry, as the readers and saveData compute
\* it: (dataBufferIndex - i - 1 + DATA_BUFFER_SIZE) % DATA_BUFFER_SIZE
RingIdx(idx, i) == (idx - i - 1 + DATA_BUFFER_SIZE) % DATA_BUFFER_SIZE

\* The % of C++ on ints: the quotient is truncated toward zero, so the
\* remainder has the sign of the dividend.
CRem(a, b) == IF a >= 0 THEN a % b ELSE 0 - ((0 - a) % b)

\* drawChartScreen() line 702, drawTableScreen() line 831, saveData() line
\* 503: the slot index as the expression computes it.
SlotIndex_NoBias(idx, i) == CRem(idx - i - 1, DATA_BUFFER_SIZE)

SlotIndex(idx, i) == CRem(idx - i - 1 + DATA_BUFFER_SIZE, DATA_BUFFER_SIZE)

\* Fixed sketch, update_chart() line 901 and update_table() line 934: the
\* slot index k entries before the cursor.
FixedSlotIndex(idx, k) == CRem(idx - k + DATA_BUFFER_SIZE, DATA_BUFFER_SIZE)

(***************************************************************************)
(* Main sketch: the text of the log file.                                  *)
(***************************************************************************)
\* strftime("%Y-%m-%d %H:%M:%S", localtime(&t)): the broken-down time.  The
\* calendar date is carried as the day number it encodes.
FormatTime(t) ==
  [day |-> t \div 86400, hour |-> (t % 86400) \div 3600,
   min |-> (t % 3600) \div 60, sec |-> t % 60]

\* sscanf of the six fields followed by mktime.
ParseTime(str) ==
  str.day * 86400 + str.hour * 3600 + str.min * 60 + str.sec

\* file.print(float): Print::printFloat with 2 digits.  The sign is printed
\* first, 0.005 is added to the magnitude, and the integer part and two
\* digits are printed: the text is a sign and a number of hundredths.
PrintFloat(x) ==
  LET mag == IF x < 0 THEN 0 - x ELSE x
  IN  [neg |-> x < 0,
       cents |-> (mag + (TempUnit \div 200)) \div (TempUnit \div 100)]

\* String::toFloat of such a text.
ToFloat(txt) ==
  (IF txt.neg THEN 0 - 1 ELSE 1) * txt.cents * (TempUnit \div 100)

\* The line saveData prints for the entry d: the time, a comma, and the
\* first n (sensorCount) temperatures separated by commas.
DataLine(d, n) ==
  [time |-> FormatTime(d.timestamp), comma |-> TRUE,
   temps |-> [k \in 1 .. n |-> PrintFloat(d.temperatures[k - 1])]]

\* saveData(), line 507: what the file holds of the line when nothing
\* after the time was printed.
TornLine(d) ==
  [time |-> FormatTime(d.timestamp), comma |-> FALSE, temps |-> << >>]

\* String::toFloat of a printed time: the digits before the first '-',
\* the year (leap days are not counted).
YearOf(str) == 1970 + str.day \div 365

(***************************************************************************)
(* Main sketch: start-up.                                                   *)
(***************************************************************************)
\* A Preferences key holds << >> until it is put, and <<v>> afterwards.
NoPrefs ==
  [wifi_enabled |-> << >>, sensor_count |-> << >>,
   sensor_names |-> [i \in Channels |-> << >>],
   sample_interval |-> << >>, deep_sleep |-> << >>]

\* A display name: << >> is the empty String, <<n>> is "Sensor n".
NoName == << >>
NoNames == [i \in Channels |-> NoName]

\* loadSettings(), lines 481-484: for every i below the stored count the
\* name is what the key sensor_i holds, or "Sensor i+1" when the store has
\* no such key; the other names stay as they are.
LoadNames(p, names, count) ==
  [i \in Channels |->
     IF i < count
       THEN IF p.sensor_names[i] = << >> THEN <<i + 1>>
                                         ELSE p.sensor_names[i][1]
       ELSE names[i]]

\* preferences.getBool / getInt (key, default)
GetPref(p, key, default) == IF p[key] = << >> THEN default ELSE p[key][1]

\* The settings globals as their initialisers leave them.
InitialSettings ==
  [wifiEnabled |-> TRUE, bluetoothEnabled |-> TRUE, sensorCount |-> 0,
   sampleInterval |-> 60, deepSleepEnabled |-> TRUE]

\* The settings globals as they are.
MemSettings ==
  [wifiEnabled |-> wifiEnabled, bluetoothEnabled |-> bluetoothEnabled,
   sensorCount |-> sensorCount, sampleInterval |-> sampleInterval,
   deepSleepEnabled |-> deepSleepEnabled]

\* loadSettings(): the settings it leaves in the globals m when the store
\* holds p.  No key holds bluetoothEnabled.
LoadSettings(p, m) ==
  [wifiEnabled |-> GetPref(p, "wifi_enabled", TRUE),
   bluetoothEnabled |-> m.bluetoothEnabled,
   sensorCount |-> GetPref(p, "sensor_count", 0),
   sampleInterval |-> GetPref(p, "sample_interval", 60),
   deepSleepEnabled |-> GetPref(p, "deep_sleep", TRUE)]

\* The file system before setup() has tried to mount it.
NoMount == [begins |-> 0, formats |-> 0, mounted |-> FALSE]

\* The results of the first and of a second call of SPIFFS.begin(true).
MountOk == <<TRUE, TRUE>>
MountPlans == {MountOk, <<FALSE, TRUE>>, <<FALSE, FALSE>>}

\* setup(), lines 140-147, without the format and the second begin.
MountStorage_NoRetry(plan) ==
  [begins |-> 1, formats |-> 0, mounted |-> plan[1]]

\* setup(), lines 140-147: SPIFFS.begin(true); when it fails,
\* SPIFFS.format() and a second SPIFFS.begin(true).
MountStorage(plan) ==
  IF plan[1]
    THEN [begins |-> 1, formats |-> 0, mounted |-> TRUE]
    ELSE [begins |-> 2, formats |-> 1, mounted |-> plan[2]]

\* setupSensors(): the channel count is the number of devices found.
setupSensors ==
  sensorCount' = deviceCount

\* setup(): mounts the file system, loads the settings, initialises the
\* sensors and starts the two tasks.  It does not call loadData().
\* loadSettings() writes sensorNames[i] for every i below the stored count.
Setup ==
  /\ sketch = "main"
  /\ sPc = "setup"
  /\ LET m == LoadSettings(prefs, MemSettings)
     IN  /\ loaded' = <<m>>
         /\ wifiEnabled' = m.wifiEnabled
         /\ bluetoothEnabled' = m.bluetoothEnabled
         /\ sampleInterval' = m.sampleInterval
         /\ deepSleepEnabled' = m.deepSleepEnabled
         /\ sensorNames' = LoadNames(prefs, sensorNames, m.sensorCount)
         /\ IF m.sensorCount > MAX_SENSORS
              THEN /\ oob' = TRUE
                   /\ sensorCount' = m.sensorCount
                   /\ sPc' = "undefined"
                   /\ dPc' = "undefined"
              ELSE /\ setupSensors
                   /\ sPc' = "read"
                   /\ dPc' = "idle"
                   /\ UNCHANGED oob
  /\ mount' = MountStorage(spiffsPlan)
  /\ UNCHANGED <<envVars, sleepVars, tableVars, flashVars, touches, saved,
                 saveOld, saveNew,
                 interrupted,
                 lastTouch, wakeAt, settings, clock, ringVars, file, newData,
                 chartI, chartRegs, chartSeen, fixedVars, appended,
                 committed, before, lastSave, replayed, cycles, bootCycles,
                 faults, restarts, draws>>

(***************************************************************************)
(* Main sketch: the sensor task, sensorTask() on core 0.                   *)
(***************************************************************************)
\* Channels among the first n whose read returned "disconnected".
Disconnected(t, n) ==
  Cardinality({i \in Channels : i < n /\ t[i] = DEVICE_DISCONNECTED_C})

\* readSensors(), lines 239-247: the timestamp and one read per active
\* channel; the other entries of the local keep what the stack held.  An
\* index with no device behind it reads as disconnected.
ReadTemperatures ==
  /\ sketch = "main"
  /\ sPc = "read"
  /\ cycles < MaxCycles
  /\ \E t \in [Channels -> Readings \cup Indeterminate] :
       /\ \A i \in Channels :
            IF i < sensorCount /\ i < MAX_SENSORS
              THEN IF i < deviceCount
                     THEN t[i] \in Readings
                     ELSE t[i] = DEVICE_DISCONNECTED_C
              ELSE t[i] = stackJunk
       /\ newData' = [timestamp |-> clock, temperatures |-> t]
       /\ faults' = faults + Disconnected(t, Min(sensorCount, deviceCount))
       /\ faults' + restarts + draws + touches <= MaxEvents
  /\ cycles' = cycles + 1
  /\ bootCycles' = bootCycles + 1
  /\ sPc' = "store"
  /\ UNCHANGED <<envVars, mount, sleepVars, tableVars, radioVars, flashVars,
                 userVars, wakeAt, settings,
                 oob, clock, ringVars, settingsVars, file, displayVars,
                 fixedVars, appended, committed, before, lastSave, replayed,
                 restarts, draws>>

\* readSensors(), line 250.
StoreSlot ==
  /\ sketch = "main"
  /\ sPc = "store"
  /\ dataBuffer' = StoreAt(dataBuffer, dataBufferIndex, newData)
  /\ appended' = Append(appended, newData)
  /\ before' = [buf |-> dataBuffer, idx |-> dataBufferIndex,
                cnt |-> dataBufferCount]
  /\ sPc' = "advance"
  /\ UNCHANGED <<envVars, mount, sleepVars, tableVars, radioVars, flashVars,
                 userVars, wakeAt, settings,
                 oob, clock, dataBufferIndex, dataBufferCount,
                 settingsVars, file, newData, displayVars, fixedVars,
                 committed, lastSave, replayed, cycles, bootCycles, faults,
                 restarts, draws>>

\* readSensors(), line 251.
AdvanceIndex ==
  /\ sketch = "main"
  /\ sPc = "advance"
  /\ dataBufferIndex' = NextIndex(dataBufferIndex)
  /\ sPc' = "count"
  /\ UNCHANGED <<envVars, mount, sleepVars, tableVars, radioVars, flashVars,
                 userVars, wakeAt, settings,
                 oob, clock, dataBuffer, dataBufferCount, settingsVars,
                 file, newData, displayVars, fixedVars, appended, committed,
                 before, lastSave, replayed, cycles, bootCycles, faults,
                 restarts, draws>>

\* readSensors(), lines 252-254.
IncrementCount ==
  /\ sketch = "main"
  /\ sPc = "count"
  /\ dataBufferCount' = NextCount(dataBufferCount)
  /\ sPc' = "save"
  /\ UNCHANGED <<envVars, mount, sleepVars, tableVars, radioVars, flashVars,
                 userVars, wakeAt, settings,
                 oob, clock, dataBuffer, dataBufferIndex, settingsVars,
                 file, newData, displayVars, fixedVars, appended, committed,
                 before, lastSave, replayed, cycles, bootCycles, faults,
                 restarts, draws>>

\* saveData(): opens the file for appending; when that fails it returns,
\* otherwise it prints the newest entry as one line.  readSensors then
\* returns and sensorTask goes on to its delay.  The loop that prints reads
\* temperatures[i] for every i below sensorCount; past the end of the array
\* the behaviour is undefined and the model does not follow it.
SaveData_FailStops ==
  /\ sketch = "main"
  /\ sPc = "save"
  /\ \E opened \in {b \in BOOLEAN : b => mount.mounted} :
       IF opened
         THEN IF sensorCount > MAX_SENSORS
                THEN /\ oob' = TRUE
                     /\ sPc' = "undefined"
                     /\ UNCHANGED <<file, committed, lastSave, faults>>
                ELSE LET d == dataBuffer[RingIdx(dataBufferIndex, 0)]
                     IN  /\ file' = Append(file, DataLine(d, sensorCount))
                         /\ committed' = Append(committed, d)
                         /\ lastSave' = "ok"
                         /\ sPc' = "delay"
                         /\ UNCHANGED <<faults, oob>>
         ELSE /\ Events < MaxEvents
              /\ faults' = faults + 1
              /\ lastSave' = "failed"
              /\ sPc' = "stopped"
              /\ UNCHANGED <<file, committed, oob>>
  /\ UNCHANGED <<envVars, mount, sleepVars, tableVars, radioVars, flashVars,
                 userVars, wakeAt, settings,
                 clock, ringVars, settingsVars, newData, displayVars,
                 fixedVars, appended, before, replayed, cycles, bootCycles,
                 restarts, draws>>

\* saveData() printing the entry at the cursor instead of the one before it.
SaveData_AtCursor ==
  /\ sketch = "main"
  /\ sPc = "save"
  /\ \E opened \in {b \in BOOLEAN : b => mount.mounted} :
       IF opened
         THEN IF sensorCount > MAX_SENSORS
                THEN /\ oob' = TRUE
                     /\ sPc' = "undefined"
                     /\ UNCHANGED <<file, committed, lastSave, faults>>
                ELSE LET d == dataBuffer[dataBufferIndex]
                     IN  /\ file' = Append(file, DataLine(d, sensorCount))
                         /\ committed' = Append(committed, d)
                         /\ lastSave' = "ok"
                         /\ sPc' = "delay"
                         /\ UNCHANGED <<faults, oob>>
         ELSE /\ Events < MaxEvents
              /\ faults' = faults + 1
              /\ lastSave' = "failed"
              /\ sPc' = "delay"
              /\ UNCHANGED <<file, committed, oob>>
  /\ UNCHANGED <<envVars, mount, sleepVars, tableVars, radioVars, flashVars,
                 userVars, wakeAt, settings,
                 clock, ringVars, settingsVars, newData, displayVars,
                 fixedVars, appended, before, replayed, cycles, bootCycles,
                 restarts, draws>>

SaveData ==
  /\ sketch = "main"
  /\ sPc = "save"
  /\ \E opened \in {b \in BOOLEAN : b => mount.mounted} :
       IF opened
         THEN IF sensorCount > MAX_SENSORS
                THEN /\ oob' = TRUE
                     /\ sPc' = "undefined"
                     /\ UNCHANGED <<file, committed, lastSave, faults>>
                ELSE LET d == dataBuffer[RingIdx(dataBufferIndex, 0)]
                     IN  /\ file' = Append(file, DataLine(d, sensorCount))
                         /\ committed' = Append(committed, d)
                         /\ lastSave' = "ok"
                         /\ sPc' = "delay"
                         /\ UNCHANGED <<faults, oob>>
         ELSE /\ Events < MaxEvents
              /\ faults' = faults + 1
              /\ lastSave' = "failed"
              /\ sPc' = "delay"
              /\ UNCHANGED <<file, committed, oob>>
  /\ UNCHANGED <<envVars, mount, sleepVars, tableVars, radioVars, flashVars,
                 userVars, wakeAt, settings,
                 clock, ringVars, settingsVars, newData, displayVars,
                 fixedVars, appended, before, replayed, cycles, bootCycles,
                 restarts, draws>>

\* saveData(), lines 507-508: power fails after the time was printed and
\* before the comma; the file keeps the characters printed so far.
SaveDataTorn ==
  /\ sketch = "main"
  /\ sPc = "save"
  /\ sensorCount <= MAX_SENSORS
  /\ mount.mounted
  /\ Events < MaxEvents
  /\ file' = Append(file, TornLine(dataBuffer[RingIdx(dataBufferIndex, 0)]))
  /\ lastSave' = "failed"
  /\ sPc' = "torn"
  /\ UNCHANGED <<envVars, mount, sleepVars, tableVars, radioVars, flashVars,
                 userVars, wakeAt, settings,
                 oob, clock, ringVars, settingsVars, newData, displayVars,
                 fixedVars, appended, committed, before, replayed, cycles,
                 bootCycles, faults, restarts, draws>>

\* sensorTask() waiting for the interval that setup() loaded.
Delay_BootInterval ==
  /\ sketch = "main"
  /\ sPc = "delay"
  /\ wakeAt' = clock + loaded[1].sampleInterval
  /\ lastTouch' = [lastTouch EXCEPT !.inWait = FALSE]
  /\ sPc' = "wait"
  /\ UNCHANGED <<envVars, mount, sleepVars, tableVars, radioVars, flashVars,
                 touches, loaded, saved,
                 saveOld, saveNew, interrupted, settings, oob, clock, ringVars,
                 settingsVars, file, newData, displayVars, fixedVars,
                 appended, committed, before, lastSave, replayed, cycles,
                 bootCycles, faults, restarts, draws>>

\* sensorTask(), line 207: delay(sampleInterval * 1000) is called; the
\* length of the wait is the interval's value at the call.
Delay ==
  /\ sketch = "main"
  /\ sPc = "delay"
  /\ wakeAt' = clock + sampleInterval
  /\ lastTouch' = [lastTouch EXCEPT !.inWait = FALSE]
  /\ sPc' = "wait"
  /\ UNCHANGED <<envVars, mount, sleepVars, tableVars, radioVars, flashVars,
                 touches, loaded, saved,
                 saveOld, saveNew, interrupted, settings, oob, clock, ringVars,
                 settingsVars, file, newData, displayVars, fixedVars,
                 appended, committed, before, lastSave, replayed, cycles,
                 bootCycles, faults, restarts, draws>>

\* sensorTask(), line 207: the delay returns.
DelayDone ==
  /\ sketch = "main"
  /\ sPc = "wait"
  /\ clock' = wakeAt
  /\ sPc' = "check"
  /\ UNCHANGED <<envVars, mount, sleepVars, tableVars, radioVars, flashVars,
                 userVars, wakeAt, settings,
                 oob, ringVars, settingsVars, file, newData, displayVars,
                 fixedVars, appended, committed, before, lastSave, replayed,
                 cycles, bootCycles, faults, restarts, draws>>

\* dataBufferIndex and dataBufferCount are plain globals the sensor task
\* writes while drawChartScreen's loop reads them.  A build may reload them
\* on every iteration or keep the values it loaded when the loop started.
NoRegs == [hoisted |-> FALSE, index |-> 0, count |-> 0]

\* The positions of the display task inside saveSettings().
SaveSteps == {"putWifi", "putCount", "putNames", "putInterval", "putSleep"}

NoTouch == [kind |-> "none", inWait |-> FALSE, at |-> 0, to |-> 0]

\* A reset: RAM is lost and gets its initialisers back, flash is kept, and
\* setup() runs again.
ResetRam ==
  /\ dataBuffer' = [s \in Slots |-> ZeroData]
  /\ dataBufferIndex' = 0
  /\ dataBufferCount' = 0
  /\ sensorCount' = 0
  /\ sensorNames' = NoNames
  /\ sampleInterval' = 60
  /\ deepSleepEnabled' = TRUE
  /\ wifiEnabled' = TRUE
  /\ bluetoothEnabled' = TRUE
  /\ newData' = ZeroData
  /\ wakeAt' = 0
  /\ sPc' = "setup"
  /\ dPc' = "off"
  /\ chartI' = 0
  /\ chartRegs' = NoRegs
  /\ chartSeen' = << >>
  /\ tableScrollOffset' = 0
  /\ maxTableScroll' = 0
  /\ lastTouchTime' = 0
  /\ bootAt' = clock'
  /\ appended' = << >>
  /\ before' = [buf |-> [s \in Slots |-> ZeroData], idx |-> 0, cnt |-> 0]
  /\ replayed' = FALSE
  /\ bootCycles' = 0
  /\ loaded' = << >>
  /\ interrupted' = (dPc \in SaveSteps)
  /\ lastTouch' = NoTouch
  /\ restarts' = restarts + 1
  /\ mount' = NoMount
  /\ UNCHANGED <<envVars, flashVars, touches, saved, saveOld, saveNew,
                 settings, oob,
                 file, fixedVars, committed, lastSave, cycles, faults,
                 draws>>

\* enterDeepSleep(): arms the 10 s timer and calls esp_deep_sleep_start(),
\* which does not return.  The wake-up is a reset.
enterDeepSleep ==
  /\ clock' = clock + 10
  /\ ResetRam

\* Power is lost and comes back.
PowerLoss ==
  /\ sketch = "main"
  /\ sPc # "setup"
  /\ ~oob
  /\ Events < MaxEvents
  /\ UNCHANGED clock
  /\ ResetRam

\* Power comes back after it failed during saveData().
PowerReturns ==
  /\ sketch = "main"
  /\ sPc = "torn"
  /\ UNCHANGED clock
  /\ ResetRam

\* sensorTask(), lines 209-212.  idle: millis() - lastTouchTime > 60000.
SleepCheck ==
  /\ sketch = "main"
  /\ sPc = "check"
  /\ \E idle \in {b \in BOOLEAN : b => Events < MaxEvents} :
       IF deepSleepEnabled /\ idle
         THEN enterDeepSleep
         ELSE /\ sPc' = "read"
              /\ UNCHANGED <<envVars, mount, sleepVars, tableVars, radioVars,
                             flashVars, userVars, wakeAt, settings,
                 oob, clock, ringVars, settingsVars, file,
                             newData, displayVars, fixedVars, appended,
                             committed, before, lastSave, replayed, cycles,
                             bootCycles, faults, restarts, draws>>

\* The inactivity timeout in seconds: 60000 ms, the literal of line 210 of
\* the main sketch and DEEP_SLEEP_TIMEOUT of the Fixed sketch.
DEEP_SLEEP_TIMEOUT == 60

\* millis(), in seconds.
Millis == clock - bootAt

\* sensorTask(), line 210: the test deepSleepEnabled && (millis() -
\* lastTouchTime > 60000) on the values the two globals have when it is
\* made.  The delay that has just returned and the reading before it took
\* more than their nominal time, so that the test passes when the model's
\* clock shows exactly the timeout.
SleepTest ==
  /\ sketch = "main"
  /\ sPc = "check"
  /\ IF deepSleepEnabled /\ Millis - lastTouchTime >= DEEP_SLEEP_TIMEOUT
       THEN /\ Events < MaxEvents
            /\ sPc' = "sleep"
       ELSE sPc' = "read"
  /\ UNCHANGED <<envVars, mount, sleepVars, tableVars, radioVars, flashVars,
                 userVars, wakeAt, settings, oob, clock, ringVars,
                 settingsVars, file, newData, displayVars, fixedVars,
                 appended, committed, before, lastSave, replayed, cycles,
                 bootCycles, faults, restarts, draws>>

\* sensorTask(), line 211, and enterDeepSleep(), lines 1027-1037: after the
\* test has passed the message is printed, the timer is armed and
\* esp_deep_sleep_start() suspends the device, whatever the display task
\* did on the other core since the test.
SleepStart ==
  /\ sketch = "main"
  /\ sPc = "sleep"
  /\ enterDeepSleep

(***************************************************************************)
(* Main sketch: replay of the log file.                                    *)
(***************************************************************************)
\* loadData(), lines 536-564: one line parsed into a local TempData; the
\* temperatures the line does not give keep what the stack held.  For a
\* line without a comma indexOf returns -1: substring(0, -1) is the whole
\* line, the loop of lines 555-564 starts at 0, and the whole line is
\* converted into temperatures[0].
ParseLine(line) ==
  [timestamp |-> ParseTime(line.time),
   temperatures |->
     [i \in Channels |->
        IF line.comma
          THEN IF i < Len(line.temps)
                 THEN ToFloat(line.temps[i + 1])
                 ELSE stackJunk
          ELSE IF i = 0
                 THEN YearOf(line.time) * TempUnit
                 ELSE stackJunk]]

\* loadData(): returns when the file cannot be opened; otherwise resets the
\* ring store and stores line after line while count < DATA_BUFFER_SIZE.
LoadData ==
  IF file = << >>
    THEN UNCHANGED ringVars
    ELSE LET n == Min(Len(file), DATA_BUFFER_SIZE)
         IN  /\ dataBuffer' = [s \in Slots |-> IF s < n
                                        THEN ParseLine(file[s + 1])
                                        ELSE dataBuffer[s]]
             /\ dataBufferIndex' = n % DATA_BUFFER_SIZE
             /\ dataBufferCount' = n

\* loadData() called while setup runs (no line of setup does so).
Replay ==
  /\ sketch = "main"
  /\ sPc = "setup"
  /\ ~replayed
  /\ LoadData
  /\ replayed' = TRUE
  /\ UNCHANGED <<envVars, mount, sleepVars, tableVars, radioVars, flashVars,
                 userVars, wakeAt, settings,
                 oob, clock, settingsVars, file, sPc, newData,
                 displayVars, fixedVars, appended, committed, before,
                 lastSave, cycles, bootCycles, faults, restarts, draws>>

(***************************************************************************)
(* Main sketch: the display task, displayTask() on core 1.                 *)
(***************************************************************************)
TimeRange == {"ONE_HOUR", "SIX_HOURS", "TWENTY_FOUR_HOURS"}

\* drawChartScreen(), lines 685-695: the length of the window.
RangeSeconds(r) ==
  CASE r = "ONE_HOUR" -> 3600 \div RangeScale
    [] r = "SIX_HOURS" -> (6 * 3600) \div RangeScale
    [] r = "TWENTY_FOUR_HOURS" -> (24 * 3600) \div RangeScale

\* The entries in the order the loops of drawChartScreen and
\* drawTableScreen reach them: i = 0 .. dataBufferCount - 1.
Traversal ==
  [k \in 1 .. dataBufferCount |->
     dataBuffer[RingIdx(dataBufferIndex, k - 1)]]

\* drawChartScreen(), lines 701-712 and 747-770: the entries the loop
\* takes into the chart, in the order it takes them.
InWindow(d, startTime, now) ==
  d.timestamp >= startTime /\ d.timestamp <= now

ChartSeries_Unfiltered(startTime, now) == Traversal

ChartSeries(startTime, now) ==
  SelectSeq(Traversal, LAMBDA d : InWindow(d, startTime, now))

\* drawChartScreen(), lines 743-770: the segments drawLine draws for channel
\* s, from iteration k of the plot loop on, each as <<prevTime, timestamp>>.
\* prevTime = 0 stands for "no previous point".
RECURSIVE PlotLine_NoReset(_, _, _, _, _)
PlotLine_NoReset(s, k, prevTime, startTime, now) ==
  IF k > dataBufferCount
    THEN {}
    ELSE LET d == Traversal[k]
         IN  IF ~InWindow(d, startTime, now)
               THEN PlotLine_NoReset(s, k + 1, prevTime, startTime, now)
               ELSE IF d.temperatures[s] # DEVICE_DISCONNECTED_C
                 THEN (IF prevTime # 0
                         THEN {<<prevTime, d.timestamp>>}
                         ELSE {})
                      \cup PlotLine_NoReset(s, k + 1, d.timestamp,
                                            startTime, now)
                 ELSE PlotLine_NoReset(s, k + 1, prevTime, startTime, now)

RECURSIVE PlotLine(_, _, _, _, _)
PlotLine(s, k, prevTime, startTime, now) ==
  IF k > dataBufferCount
    THEN {}
    ELSE LET d == Traversal[k]
         IN  IF ~InWindow(d, startTime, now)
               THEN PlotLine(s, k + 1, prevTime, startTime, now)
               ELSE IF d.temperatures[s] # DEVICE_DISCONNECTED_C
                 THEN (IF prevTime # 0
                         THEN {<<prevTime, d.timestamp>>}
                         ELSE {})
                      \cup PlotLine(s, k + 1, d.timestamp, startTime, now)
                 ELSE PlotLine(s, k + 1, 0, startTime, now)

\* drawChartScreen(), lines 738-770: the segments of channel s's line.
ChartSegments(s, startTime, now) == PlotLine(s, 1, 0, startTime, now)

\* drawTableScreen(), lines 825-846: the entry row shows at scroll offset
\* o, or Blank when the row stays empty.
Blank == [timestamp |-> 0 - 1, temperatures |-> [i \in Channels |-> 0]]

TableRow_NoOffset(o, row) ==
  IF row < dataBufferCount
    THEN dataBuffer[RingIdx(dataBufferIndex, row)]
    ELSE Blank

TableRow(o, row) ==
  LET dataIndex == o + row
  IN  IF dataIndex < dataBufferCount
        THEN dataBuffer[RingIdx(dataBufferIndex, dataIndex)]
        ELSE Blank

\* String(value, 1) and dtostrf(value, 4, 1, ...): the value in tenths of
\* a degree, rounded to the nearest.
Tenths(t) ==
  IF t >= 0
    THEN (t * 10 + TempUnit \div 2) \div TempUnit
    ELSE 0 - ((((0 - t) * 10) + TempUnit \div 2) \div TempUnit)

\* The text of a table cell: << >> is the placeholder ("---" in the main
\* sketch, "N/A" in the Fixed sketch), <<n>> the number n / 10.
Placeholder == << >>

\* drawTableScreen(), lines 837-844: the cell of channel i in the row that
\* shows entry d.
TableCell(d, i) ==
  IF d.temperatures[i] # DEVICE_DISCONNECTED_C
    THEN <<Tenths(d.temperatures[i])>>
    ELSE Placeholder

\* drawChartScreen(), lines 701-712: the values the loop compares with
\* minTemp and maxTemp.
ChartValues(startTime, now) ==
  LET series == ChartSeries(startTime, now)
  IN  {series[k].temperatures[c] :
         <<k, c>> \in
           {p \in (1 .. Len(series)) \X Channels :
              /\ p[2] < sensorCount
              /\ series[p[1]].temperatures[p[2]] # DEVICE_DISCONNECTED_C}}

\* updateDisplay() with the chart screen current: drawChartScreen() starts.
DrawChartBegin ==
  /\ sketch = "main"
  /\ dPc = "idle"
  /\ Events < MaxEvents
  /\ dPc' = "chart"
  /\ chartI' = 0
  /\ \E hoisted \in BOOLEAN :
       chartRegs' = IF hoisted
                      THEN [hoisted |-> TRUE, index |-> dataBufferIndex,
                            count |-> dataBufferCount]
                      ELSE NoRegs
  /\ chartSeen' = << >>
  /\ draws' = draws + 1
  /\ UNCHANGED <<envVars, mount, sleepVars, tableVars, radioVars, flashVars,
                 userVars, wakeAt, settings,
                 oob, clock, ringVars, settingsVars, file, sPc, newData,
                 fixedVars, appended, committed, before, lastSave, replayed,
                 cycles, bootCycles, faults, restarts>>

\* drawChartScreen(), lines 701-703: one iteration of the loop
\* for (i = 0; i < dataBufferCount; i++), or its end.
ChartIteration ==
  /\ sketch = "main"
  /\ dPc = "chart"
  /\ LET index == IF chartRegs.hoisted THEN chartRegs.index
                                       ELSE dataBufferIndex
         count == IF chartRegs.hoisted THEN chartRegs.count
                                       ELSE dataBufferCount
     IN  IF chartI < count
           THEN /\ chartSeen' = Append(chartSeen,
                     dataBuffer[RingIdx(index, chartI)].timestamp)
                /\ chartI' = chartI + 1
                /\ dPc' = "chart"
                /\ UNCHANGED chartRegs
           ELSE /\ chartSeen' = << >>
                /\ chartI' = 0
                /\ chartRegs' = NoRegs
                /\ dPc' = "idle"
  /\ UNCHANGED <<envVars, mount, sleepVars, tableVars, radioVars, flashVars,
                 userVars, wakeAt, settings,
                 oob, clock, ringVars, settingsVars, file, sPc, newData,
                 fixedVars, appended, committed, before, lastSave, replayed,
                 cycles, bootCycles, faults, restarts, draws>>

(***************************************************************************)
(* Main sketch: the table screen (display task).                           *)
(***************************************************************************)
\* handleTableScroll(direction) without the test of line 866.
handleTableScroll_NoUpper(offset, maxScroll, direction) ==
  LET v == offset + direction
  IN  IF v < 0 THEN 0 ELSE v

\* handleTableScroll(direction), lines 864-866: the offset it leaves.
handleTableScroll(offset, maxScroll, direction) ==
  LET v == offset + direction
      w == IF v < 0 THEN 0 ELSE v
  IN  IF w > maxScroll THEN maxScroll ELSE w

\* updateDisplay() with the table screen current: drawTableScreen(), line
\* 810, sets the largest offset from the count it reads.
DrawTable ==
  /\ sketch = "main"
  /\ dPc = "idle"
  /\ maxTableScroll' = Max(0, dataBufferCount - TABLE_ROWS)
  /\ UNCHANGED <<envVars, mount, sleepVars, radioVars, flashVars, userVars,
                 wakeAt,
                 settings,
                 oob, clock, ringVars, settingsVars, file, sPc, newData,
                 displayVars, fixedVars, appended, committed, before,
                 lastSave, replayed, cycles, bootCycles, faults, restarts,
                 draws, tableScrollOffset>>

\* handleTouch() on the table screen, lines 325-329: one of the two scroll
\* arrows is touched.
TableScroll ==
  /\ sketch = "main"
  /\ dPc = "idle"
  /\ \E direction \in {0 - 1, 1} :
       tableScrollOffset' =
         handleTableScroll(tableScrollOffset, maxTableScroll, direction)
  /\ lastTouchTime' = clock - bootAt
  /\ UNCHANGED <<envVars, mount, bootAt, radioVars, flashVars, userVars, wakeAt,
                 settings,
                 oob, clock, ringVars, settingsVars, file, sPc, newData,
                 displayVars, fixedVars, appended, committed, before,
                 lastSave, replayed, cycles, bootCycles, faults, restarts,
                 draws, maxTableScroll>>

\* handleTouch() on the main screen, lines 305-307: the Table button.
EnterTable ==
  /\ sketch = "main"
  /\ dPc = "idle"
  /\ tableScrollOffset' = 0
  /\ lastTouchTime' = clock - bootAt
  /\ UNCHANGED <<envVars, mount, bootAt, radioVars, flashVars, userVars, wakeAt,
                 settings,
                 oob, clock, ringVars, settingsVars, file, sPc, newData,
                 displayVars, fixedVars, appended, committed, before,
                 lastSave, replayed, cycles, bootCycles, faults, restarts,
                 draws, maxTableScroll>>

(***************************************************************************)
(* Main sketch: touches and the saving of the settings (display task).     *)
(***************************************************************************)
\* changeSetting(), lines 997-1001, without the two range tests.
ChangeInterval_NoClamp(interval, value) == interval + value

\* changeSetting(), lines 997-1001: sampleInterval += value, then the tests.
ChangeInterval(interval, value) ==
  LET v == interval + value
      w == IF v < 10 THEN 10 ELSE v
  IN  IF w > 600 THEN 600 ELSE w

\* changeSetting(), lines 1010-1014: sensorCount += value, then the tests.
ChangeCount(count, value) ==
  LET v == count + value
      w == IF v < 0 THEN 0 ELSE v
  IN  IF w > MAX_SENSORS THEN MAX_SENSORS ELSE w

\* The calls handleTouch() makes on the settings screen, lines 350-386:
\* <<settingsPage, setting, value>>.
TouchCalls ==
  {<<0, 0, 0>>, <<0, 1, 0>>, <<0, 2, 0 - 10>>, <<0, 2, 10>>, <<0, 3, 0>>,
   <<2, 0, 0 - 1>>, <<2, 0, 1>>}

\* changeSetting(setting, value) on page settingsPage: the settings it
\* leaves when they were m.
changeSetting(page, setting, value, m) ==
  CASE page = 0 /\ setting = 0 -> [m EXCEPT !.wifiEnabled = ~@]
    [] page = 0 /\ setting = 1 -> [m EXCEPT !.bluetoothEnabled = ~@]
    [] page = 0 /\ setting = 2 ->
         [m EXCEPT !.sampleInterval = ChangeInterval(@, value)]
    [] page = 0 /\ setting = 3 -> [m EXCEPT !.deepSleepEnabled = ~@]
    [] page = 2 /\ setting = 0 ->
         [m EXCEPT !.sensorCount = ChangeCount(@, value)]
    [] OTHER -> m

TouchKind(page, setting) ==
  CASE page = 0 /\ setting = 0 -> "wifi"
    [] page = 0 /\ setting = 1 -> "bluetooth"
    [] page = 0 /\ setting = 2 -> "interval"
    [] page = 0 /\ setting = 3 -> "sleep"
    [] OTHER -> "count"

\* The settings globals take the values of m.
SetSettings(m) ==
  /\ wifiEnabled' = m.wifiEnabled
  /\ bluetoothEnabled' = m.bluetoothEnabled
  /\ sensorCount' = m.sensorCount
  /\ sampleInterval' = m.sampleInterval
  /\ deepSleepEnabled' = m.deepSleepEnabled

\* handleTouch(), lines 289-300: the WiFi and the Bluetooth icon of the main
\* screen toggle their flag, and saveSettings() is not called.
TouchIcon ==
  /\ sketch = "main"
  /\ dPc = "idle"
  /\ touches < MaxTouches
  /\ Events < MaxEvents
  /\ \E icon \in {"wifiIcon", "bluetoothIcon"} :
       /\ wifiEnabled' =
            IF icon = "wifiIcon" THEN ~wifiEnabled ELSE wifiEnabled
       /\ bluetoothEnabled' =
            IF icon = "bluetoothIcon" THEN ~bluetoothEnabled
                                     ELSE bluetoothEnabled
       /\ lastTouch' = [kind |-> icon, inWait |-> sPc = "wait",
                        at |-> clock, to |-> 0]
  /\ touches' = touches + 1
  /\ lastTouchTime' = clock - bootAt
  /\ UNCHANGED <<envVars, mount, bootAt, tableVars, flashVars, loaded, saved,
                 saveOld, saveNew, interrupted,
                 wakeAt, settings, oob, clock, ringVars, settingsVars, file,
                 sPc, newData, displayVars, fixedVars, appended, committed,
                 before, lastSave, replayed, cycles, bootCycles, faults,
                 restarts, draws>>

\* handleTouch(), lines 350-386, calling changeSetting(), or lines 369-377
\* (the hotspot toggle): the setting changes in memory and saveSettings()
\* begins.
ChangeSetting ==
  /\ sketch = "main"
  /\ dPc = "idle"
  /\ touches < MaxTouches
  /\ Events < MaxEvents
  /\ \E c \in TouchCalls \cup {<<1, 0, 0>>} :
       LET m == IF c[1] = 1
                  THEN [MemSettings EXCEPT !.wifiEnabled = ~@]
                  ELSE changeSetting(c[1], c[2], c[3], MemSettings)
       IN  /\ SetSettings(m)
           /\ saveNew' = m
           /\ lastTouch' =
                [kind |-> IF c[1] = 1 THEN "hotspot" ELSE TouchKind(c[1], c[2]),
                 inWait |-> sPc = "wait", at |-> clock,
                 to |-> m.sampleInterval]
  /\ saveOld' = LoadSettings(prefs, InitialSettings)
  /\ saved' = << >>
  /\ touches' = touches + 1
  /\ dPc' = "putWifi"
  /\ lastTouchTime' = clock - bootAt
  /\ UNCHANGED <<envVars, mount, sensorNames, bootAt, tableVars, flashVars,
                 loaded, interrupted,
                 wakeAt, settings,
                 oob, clock, ringVars, file, sPc, newData, chartI, chartRegs,
                 chartSeen, fixedVars, appended, committed, before, lastSave,
                 replayed, cycles, bootCycles, faults, restarts, draws>>

\* saveSettings(), lines 453-472: one put after the other, each written to
\* flash when it is made.  Between sensor_count and sample_interval the
\* loop puts sensorNames[i] for every i below sensorCount; past the end of
\* the array the behaviour is undefined and the model does not follow it.
saveSettings ==
  /\ sketch = "main"
  /\ dPc \in SaveSteps
  /\ CASE dPc = "putWifi" ->
            /\ prefs' = [prefs EXCEPT !.wifi_enabled = <<wifiEnabled>>]
            /\ dPc' = "putCount"
            /\ UNCHANGED <<saved, oob>>
       [] dPc = "putCount" ->
            /\ prefs' = [prefs EXCEPT !.sensor_count = <<sensorCount>>]
            /\ dPc' = "putNames"
            /\ UNCHANGED <<saved, oob>>
       [] dPc = "putNames" ->
            /\ IF sensorCount > MAX_SENSORS
                 THEN oob' = TRUE /\ dPc' = "undefined" /\ prefs' = prefs
                 ELSE /\ oob' = oob
                      /\ dPc' = "putInterval"
                      /\ prefs' =
                           [prefs EXCEPT !.sensor_names =
                              [i \in Channels |->
                                 IF i < sensorCount THEN <<sensorNames[i]>>
                                                    ELSE @[i]]]
            /\ UNCHANGED saved
       [] dPc = "putInterval" ->
            /\ prefs' = [prefs EXCEPT !.sample_interval = <<sampleInterval>>]
            /\ dPc' = "putSleep"
            /\ UNCHANGED <<saved, oob>>
       [] dPc = "putSleep" ->
            /\ prefs' = [prefs EXCEPT !.deep_sleep = <<deepSleepEnabled>>]
            /\ dPc' = "idle"
            /\ saved' = <<MemSettings>>
            /\ UNCHANGED oob
  /\ UNCHANGED <<envVars, mount, sleepVars, tableVars, radioVars, settingsFile,
                 touches, loaded, saveOld, saveNew,
                 interrupted, lastTouch, wakeAt, settings, clock, ringVars,
                 settingsVars, file, sPc, newData, chartI, chartRegs,
                 chartSeen, fixedVars, appended, committed, before, lastSave,
                 replayed, cycles, bootCycles, faults, restarts, draws>>

(***************************************************************************)
(* Fixed sketch: one ring per channel inside the global tempData.          *)
(***************************************************************************)
MAX_DATA_POINTS == DATA_BUFFER_SIZE

ZeroTempData ==
  [sensorCount |-> 0,
   data |-> [i \in Channels |-> [s \in Slots |-> ZeroSensorData]],
   dataCount |-> [i \in Channels |-> 0],
   currentDataIndex |-> [i \in Channels |-> 0],
   dataOverflow |-> [i \in Channels |-> FALSE]]

ZeroRing == [data |-> [s \in Slots |-> ZeroSensorData], idx |-> 0, cnt |-> 0]

DEFAULT_SAMPLE_INTERVAL == 60

\* The global Settings settings, zero-initialised.  Voltages are in 1/100 V.
ZeroSettings ==
  [sampleInterval |-> 0, deepSleepEnabled |-> FALSE, sensorCount |-> 0,
   batteryCalibration |-> <<0, 0>>]

\* load_settings(): when /settings.json can be opened it sets the defaults
\* (it does not read the file); otherwise it leaves the settings m alone.
FixedLoadSettings(exists, m) ==
  IF exists
    THEN [sampleInterval |-> DEFAULT_SAMPLE_INTERVAL,
          deepSleepEnabled |-> TRUE, sensorCount |-> 1,
          batteryCalibration |-> <<300, 420>>]
    ELSE m

\* setup() of the Fixed sketch: load_settings(), then initializeSensors()
\* takes the channel count from the bus, then sensorTask is started.
FixedSetup ==
  /\ sketch = "fixed"
  /\ fPc = "setup"
  /\ settings' = FixedLoadSettings(settingsFile, settings)
  /\ loaded' = <<settings'>>
  /\ tempData' = [tempData EXCEPT !.sensorCount = deviceCount]
  /\ fPc' = "request"
  /\ UNCHANGED <<envVars, mount, sleepVars, tableVars, radioVars, flashVars,
                 touches, saved, saveOld, saveNew,
                 interrupted, lastTouch, wakeAt, oob, clock, ringVars,
                 settingsVars, file, sPc, newData, displayVars, fI, fTemp,
                 sensorDataReady, fAccepted, fRead, fBefore, appended,
                 committed, before, lastSave, replayed, cycles, bootCycles,
                 faults, restarts, draws>>

\* sensorTask(), line 113: sensors.requestTemperatures(), then i = 0.
FixedRequest ==
  /\ sketch = "fixed"
  /\ fPc = "request"
  /\ cycles < MaxCycles
  /\ fI' = 0
  /\ fRead' = [i \in Channels |-> 0]
  /\ cycles' = cycles + 1
  /\ bootCycles' = bootCycles + 1
  /\ fPc' = "loop"
  /\ UNCHANGED <<envVars, mount, sleepVars, tableVars, radioVars, flashVars,
                 userVars, wakeAt, settings,
                 oob, clock, ringVars, settingsVars, file, sPc, newData,
                 displayVars, tempData, fTemp, sensorDataReady, fAccepted,
                 fBefore, appended, committed, before, lastSave, replayed,
                 faults, restarts, draws>>

\* sensorTask(), lines 115-118: the loop test, the read of channel i and
\* the test of what it returned.  The loop is bounded by sensorCount alone;
\* addresses[i] past the end of the array is undefined behaviour, which the
\* model does not follow.
FixedGetTemp ==
  /\ sketch = "fixed"
  /\ fPc = "loop"
  /\ IF fI < tempData.sensorCount
       THEN IF fI >= MAX_SENSORS
              THEN /\ oob' = TRUE
                   /\ fPc' = "undefined"
                   /\ UNCHANGED <<fI, fTemp, fRead, faults>>
              ELSE \E temp \in Readings :
                     /\ fTemp' = temp
                     /\ fRead' = [fRead EXCEPT ![fI] = temp]
                     /\ UNCHANGED oob
                     /\ IF temp # DEVICE_DISCONNECTED_C
                          THEN /\ fPc' = "store"
                               /\ UNCHANGED <<fI, faults>>
                          ELSE /\ Events < MaxEvents
                               /\ faults' = faults + 1
                               /\ fI' = fI + 1
                               /\ fPc' = "loop"
       ELSE /\ fPc' = "ready"
            /\ UNCHANGED <<fI, fTemp, fRead, faults, oob>>
  /\ UNCHANGED <<envVars, mount, sleepVars, tableVars, radioVars, flashVars,
                 userVars, wakeAt, settings,
                 clock, ringVars, settingsVars, file, sPc, newData,
                 displayVars, tempData, sensorDataReady, fAccepted, fBefore,
                 appended, committed, before, lastSave, replayed, cycles,
                 bootCycles, restarts, draws>>

\* sensorTask(), lines 120-122.
FixedStore ==
  /\ sketch = "fixed"
  /\ fPc = "store"
  /\ LET index == tempData.currentDataIndex[fI]
         entry == [temperature |-> fTemp, timestamp |-> clock]
     IN  /\ tempData' = [tempData EXCEPT !.data[fI][index] = entry]
         /\ fAccepted' = [fAccepted EXCEPT ![fI] = Append(@, entry)]
  /\ fBefore' = [data |-> tempData.data[fI],
                 idx |-> tempData.currentDataIndex[fI],
                 cnt |-> tempData.dataCount[fI]]
  /\ fPc' = "incIndex"
  /\ UNCHANGED <<envVars, mount, sleepVars, tableVars, radioVars, flashVars,
                 userVars, wakeAt, settings,
                 oob, clock, ringVars, settingsVars, file, sPc, newData,
                 displayVars, fI, fTemp, sensorDataReady, fRead, appended,
                 committed, before, lastSave, replayed, cycles, bootCycles,
                 faults, restarts, draws>>

\* sensorTask(), line 124.
FixedIncIndex ==
  /\ sketch = "fixed"
  /\ fPc = "incIndex"
  /\ tempData' = [tempData EXCEPT !.currentDataIndex[fI] = @ + 1]
  /\ fPc' = "wrap"
  /\ UNCHANGED <<envVars, mount, sleepVars, tableVars, radioVars, flashVars,
                 userVars, wakeAt, settings,
                 oob, clock, ringVars, settingsVars, file, sPc, newData,
                 displayVars, fI, fTemp, sensorDataReady, fAccepted, fRead,
                 fBefore, appended, committed, before, lastSave, replayed,
                 cycles, bootCycles, faults, restarts, draws>>

\* sensorTask(), lines 125-126: the test of the cursor and its reset.
FixedWrapIndex ==
  /\ sketch = "fixed"
  /\ fPc = "wrap"
  /\ IF tempData.currentDataIndex[fI] >= MAX_DATA_POINTS
       THEN /\ tempData' = [tempData EXCEPT !.currentDataIndex[fI] = 0]
            /\ fPc' = "overflow"
       ELSE /\ tempData' = tempData
            /\ fPc' = "incCount"
  /\ UNCHANGED <<envVars, mount, sleepVars, tableVars, radioVars, flashVars,
                 userVars, wakeAt, settings,
                 oob, clock, ringVars, settingsVars, file, sPc, newData,
                 displayVars, fI, fTemp, sensorDataReady, fAccepted, fRead,
                 fBefore, appended, committed, before, lastSave, replayed,
                 cycles, bootCycles, faults, restarts, draws>>

\* sensorTask(), line 127: the overflow flag is set.
FixedSetOverflow ==
  /\ sketch = "fixed"
  /\ fPc = "overflow"
  /\ tempData' = [tempData EXCEPT !.dataOverflow[fI] = TRUE]
  /\ fPc' = "incCount"
  /\ UNCHANGED <<envVars, mount, sleepVars, tableVars, radioVars, flashVars,
                 userVars, wakeAt, settings,
                 oob, clock, ringVars, settingsVars, file, sPc, newData,
                 displayVars, fI, fTemp, sensorDataReady, fAccepted, fRead,
                 fBefore, appended, committed, before, lastSave, replayed,
                 cycles, bootCycles, faults, restarts, draws>>

\* sensorTask(), lines 130-132, and the loop's i++.
FixedIncCount ==
  /\ sketch = "fixed"
  /\ fPc = "incCount"
  /\ tempData' =
       IF tempData.dataCount[fI] < MAX_DATA_POINTS
         THEN [tempData EXCEPT !.dataCount[fI] = @ + 1]
         ELSE tempData
  /\ fI' = fI + 1
  /\ fPc' = "loop"
  /\ UNCHANGED <<envVars, mount, sleepVars, tableVars, radioVars, flashVars,
                 userVars, wakeAt, settings,
                 oob, clock, ringVars, settingsVars, file, sPc, newData,
                 displayVars, fTemp, sensorDataReady, fAccepted, fRead,
                 fBefore, appended, committed, before, lastSave, replayed,
                 cycles, bootCycles, faults, restarts, draws>>

\* sensorTask(), lines 136-137: the flag, then delay() is called with the
\* interval's value at the call.
FixedCycleEnd ==
  /\ sketch = "fixed"
  /\ fPc = "ready"
  /\ sensorDataReady' = TRUE
  /\ wakeAt' = clock + settings.sampleInterval
  /\ lastTouch' = [lastTouch EXCEPT !.inWait = FALSE]
  /\ fPc' = "wait"
  /\ UNCHANGED <<envVars, mount, sleepVars, tableVars, radioVars, flashVars,
                 touches, loaded, saved,
                 saveOld, saveNew, interrupted, settings, oob, clock, ringVars,
                 settingsVars, file, sPc, newData, displayVars, tempData, fI,
                 fTemp, fAccepted, fRead, fBefore, appended, committed,
                 before, lastSave, replayed, cycles, bootCycles, faults,
                 restarts, draws>>

\* sensorTask(), line 137: the delay returns.
FixedDelayDone ==
  /\ sketch = "fixed"
  /\ fPc = "wait"
  /\ clock' = wakeAt
  /\ fPc' = "request"
  /\ UNCHANGED <<envVars, mount, sleepVars, tableVars, radioVars, flashVars,
                 userVars, wakeAt, settings,
                 oob, ringVars, settingsVars, file, sPc, newData,
                 displayVars, tempData, fI, fTemp, sensorDataReady,
                 fAccepted, fRead, fBefore, appended, committed, before,
                 lastSave, replayed, cycles, bootCycles, faults, restarts,
                 draws>>

\* update_chart(), lines 887-890: the chart shows the newest CHART_POINTS
\* readings of a channel.
CHART_POINTS == 60

\* update_chart(), lines 886-906: the readings of channel i the loop hands
\* to the chart, in the order j = startIndex .. dataCount[i] - 1.
FixedChartSeries(i) ==
  LET count == tempData.dataCount[i]
      startIndex == IF count > CHART_POINTS THEN count - CHART_POINTS ELSE 0
  IN  [k \in 1 .. (count - startIndex) |->
         tempData.data[i][(tempData.currentDataIndex[i]
                             - (count - (startIndex + k - 1))
                             + MAX_DATA_POINTS) % MAX_DATA_POINTS]]

\* update_table(), lines 926-934: the number of rows filled, and the slot
\* row i shows; both come from channel 0's count and cursor.
FixedTableRows == Min(tempData.dataCount[0], Min(TABLE_ROWS, MAX_DATA_POINTS))

FixedDataIndex(i) ==
  (tempData.currentDataIndex[0] - (FixedTableRows - i) + MAX_DATA_POINTS)
    % MAX_DATA_POINTS

\* update_table(), lines 942-951: the cell of channel j in row i.
FixedTableCell(i, j) ==
  LET temp == tempData.data[j][FixedDataIndex(i)].temperature
  IN  IF temp # DEVICE_DISCONNECTED_C THEN <<Tenths(temp)>> ELSE Placeholder

(***************************************************************************)
(* Fixed sketch: the settings screen (LVGL handlers, run from loop()).     *)
(***************************************************************************)
\* Values the sliders are moved to.
IntervalSlider == {10, 600}
CountSlider == 1 .. MAX_SENSORS

\* create_settings_screen(), lines 568-571: the interval slider's handler.
\* No handler of the sketch calls save_settings().
FixedIntervalSlider ==
  /\ sketch = "fixed"
  /\ fPc \notin {"setup", "undefined"}
  /\ touches < MaxTouches
  /\ Events < MaxEvents
  /\ \E v \in IntervalSlider :
       /\ settings' = [settings EXCEPT !.sampleInterval = v]
       /\ lastTouch' = [kind |-> "interval", inWait |-> fPc = "wait",
                        at |-> clock, to |-> v]
  /\ touches' = touches + 1
  /\ UNCHANGED <<envVars, mount, sleepVars, tableVars, radioVars, flashVars,
                 loaded,
                 saved, saveOld, saveNew,
                 interrupted, wakeAt, oob, clock, ringVars, settingsVars,
                 file, sPc, newData, displayVars, fixedVars, appended,
                 committed, before, lastSave, replayed, cycles, bootCycles,
                 faults, restarts, draws>>

\* create_settings_screen(), lines 582-585: the deep sleep switch's handler.
FixedSleepSwitch ==
  /\ sketch = "fixed"
  /\ fPc \notin {"setup", "undefined"}
  /\ touches < MaxTouches
  /\ Events < MaxEvents
  /\ settings' = [settings EXCEPT !.deepSleepEnabled = ~@]
  /\ lastTouch' = [kind |-> "sleep", inWait |-> fPc = "wait",
                   at |-> clock, to |-> settings.sampleInterval]
  /\ touches' = touches + 1
  /\ UNCHANGED <<envVars, mount, sleepVars, tableVars, radioVars, flashVars,
                 loaded,
                 saved, saveOld, saveNew,
                 interrupted, wakeAt, oob, clock, ringVars, settingsVars,
                 file, sPc, newData, displayVars, fixedVars, appended,
                 committed, before, lastSave, replayed, cycles, bootCycles,
                 faults, restarts, draws>>

\* create_settings_screen(), lines 649-654: the sensor count slider's
\* handler, when the value differs from the count.
FixedCountSlider ==
  /\ sketch = "fixed"
  /\ fPc \notin {"setup", "undefined"}
  /\ touches < MaxTouches
  /\ Events < MaxEvents
  /\ \E newCount \in CountSlider \ {tempData.sensorCount} :
       /\ tempData' = [tempData EXCEPT !.sensorCount = newCount]
       /\ settings' = [settings EXCEPT !.sensorCount = newCount]
  /\ lastTouch' = [kind |-> "count", inWait |-> fPc = "wait",
                   at |-> clock, to |-> settings.sampleInterval]
  /\ touches' = touches + 1
  /\ UNCHANGED <<envVars, mount, sleepVars, tableVars, radioVars, flashVars,
                 loaded,
                 saved, saveOld, saveNew,
                 interrupted, wakeAt, oob, clock, ringVars, settingsVars,
                 file, sPc, newData, displayVars, fPc, fI, fTemp,
                 sensorDataReady, fAccepted, fRead, fBefore, appended,
                 committed, before, lastSave, replayed, cycles, bootCycles,
                 faults, restarts, draws>>

\* create_settings_screen(), lines 774-782: the Clear Data button's handler
\* resets count, cursor and overflow flag of every channel; the slots keep
\* what they hold.  The handler runs in loop() on the other core than
\* sensorTask and takes no lock.
FixedClear ==
  /\ sketch = "fixed"
  /\ fPc \notin {"setup", "undefined"}
  /\ touches < MaxTouches
  /\ Events < MaxEvents
  /\ tempData' = [tempData EXCEPT
                    !.dataCount = [i \in Channels |-> 0],
                    !.currentDataIndex = [i \in Channels |-> 0],
                    !.dataOverflow = [i \in Channels |-> FALSE]]
  /\ fAccepted' = [i \in Channels |-> << >>]
  /\ lastTouch' = [kind |-> "clear", inWait |-> fPc = "wait",
                   at |-> clock, to |-> settings.sampleInterval]
  /\ touches' = touches + 1
  /\ UNCHANGED <<envVars, mount, sleepVars, tableVars, radioVars, flashVars,
                 loaded,
                 saved, saveOld,
                 saveNew, interrupted, wakeAt, settings, oob, clock,
                 ringVars, settingsVars, file, sPc, newData, displayVars,
                 fPc, fI, fTemp, sensorDataReady, fRead, fBefore, appended,
                 committed, before, lastSave, replayed, cycles, bootCycles,
                 faults, restarts, draws>>

(***************************************************************************)
(* Initial states and specifications.                                      *)
(***************************************************************************)
\* Both sketches: the globals as their initialisers leave them.
InitCommon ==
  /\ clock = BootTime
  /\ deviceCount \in {1, MAX_SENSORS, MAX_SENSORS + 1}
  /\ dataBuffer = [s \in Slots |-> ZeroData]
  /\ dataBufferIndex = 0
  /\ dataBufferCount = 0
  /\ sensorCount = 0
  /\ sampleInterval = 60
  /\ deepSleepEnabled = TRUE
  /\ file = << >>
  /\ newData = ZeroData
  /\ dPc = "off"
  /\ chartI = 0
  /\ chartRegs = NoRegs
  /\ chartSeen = << >>
  /\ tableScrollOffset = 0
  /\ maxTableScroll = 0
  /\ lastTouchTime = 0
  /\ bootAt = BootTime
  /\ sensorNames = NoNames
  /\ mount = NoMount
  /\ tempData = ZeroTempData
  /\ fI = 0
  /\ fTemp = 0
  /\ sensorDataReady = FALSE
  /\ fAccepted = [i \in Channels |-> << >>]
  /\ fRead = [i \in Channels |-> 0]
  /\ fBefore = ZeroRing
  /\ appended = << >>
  /\ committed = << >>
  /\ before = [buf |-> [s \in Slots |-> ZeroData], idx |-> 0, cnt |-> 0]
  /\ lastSave = "none"
  /\ replayed = FALSE
  /\ cycles = 0
  /\ bootCycles = 0
  /\ faults = 0
  /\ restarts = 0
  /\ draws = 0
  /\ wifiEnabled = TRUE
  /\ bluetoothEnabled = TRUE
  /\ wakeAt = 0
  /\ settings = ZeroSettings
  /\ touches = 0
  /\ loaded = << >>
  /\ saved = << >>
  /\ saveOld = InitialSettings
  /\ saveNew = InitialSettings
  /\ interrupted = FALSE
  /\ lastTouch = NoTouch
  /\ oob = FALSE

\* What the stack holds shows only in the channels the loops leave
\* unwritten, which exist when fewer than all channels are active.
InitMain ==
  /\ InitCommon
  /\ sketch = "main"
  /\ stackJunk \in IF deviceCount < MAX_SENSORS THEN Indeterminate ELSE {0}
  /\ sPc = "setup"
  /\ fPc = "off"
  /\ prefs = NoPrefs
  /\ settingsFile = FALSE
  /\ spiffsPlan = MountOk

InitFixed ==
  /\ sketch = "fixed"
  /\ stackJunk = 0
  /\ sPc = "off"
  /\ fPc = "setup"
  /\ prefs = NoPrefs
  /\ settingsFile \in BOOLEAN
  /\ spiffsPlan = MountOk
  /\ InitCommon

Init == InitMain \/ InitFixed

SensorTaskMain ==
  \/ ReadTemperatures
  \/ StoreSlot
  \/ AdvanceIndex
  \/ IncrementCount
  \/ SaveData
  \/ Delay
  \/ DelayDone
  \/ SleepCheck

DisplayTaskMain ==
  \/ DrawChartBegin
  \/ ChartIteration

SensorTaskFixed ==
  \/ FixedRequest
  \/ FixedGetTemp
  \/ FixedStore
  \/ FixedIncIndex
  \/ FixedWrapIndex
  \/ FixedSetOverflow
  \/ FixedIncCount
  \/ FixedCycleEnd
  \/ FixedDelayDone

Next ==
  \/ Setup
  \/ SensorTaskMain
  \/ DisplayTaskMain
  \/ FixedSetup
  \/ SensorTaskFixed

\* The two sketches as they run.
Spec == Init /\ [][Next]_vars

\* What the store of a device holds that has run before: nothing, or the
\* settings of an earlier completed save with the interval at one of its
\* limits.
SavedPrefs(interval) ==
  [wifi_enabled |-> <<TRUE>>, sensor_count |-> <<deviceCount>>,
   sensor_names |-> [i \in Channels |-> IF i < deviceCount THEN <<NoName>>
                                                           ELSE << >>],
   sample_interval |-> <<interval>>, deep_sleep |-> <<TRUE>>]

InitSettings ==
  \/ /\ InitCommon
     /\ sketch = "main"
     /\ stackJunk = 0
     /\ sPc = "setup"
     /\ fPc = "off"
     /\ prefs \in IF deviceCount <= MAX_SENSORS
                  THEN {NoPrefs, SavedPrefs(10), SavedPrefs(600)}
                  ELSE {NoPrefs}
     /\ settingsFile = FALSE
     /\ spiffsPlan = MountOk
  \/ InitFixed

UserMain ==
  \/ TouchIcon
  \/ ChangeSetting
  \/ saveSettings
  \/ PowerLoss

UserFixed ==
  \/ FixedIntervalSlider
  \/ FixedSleepSwitch
  \/ FixedCountSlider

NextSettings ==
  \/ Setup
  \/ SensorTaskMain
  \/ UserMain
  \/ FixedSetup
  \/ SensorTaskFixed
  \/ UserFixed

\* The two sketches with the user at the screen and the power supply
\* failing: the sensor task runs, settings are changed and saved, and the
\* device restarts.
SpecSettings == InitSettings /\ [][NextSettings]_vars

NextTouch ==
  \/ Setup
  \/ UserMain
  \/ FixedSetup
  \/ UserFixed

\* The display side alone: the settings are loaded, the user changes them,
\* they are saved, and the power supply fails; no sample is taken.
SpecTouch == InitSettings /\ [][NextTouch]_vars

NextFixed ==
  \/ FixedSetup
  \/ SensorTaskFixed
  \/ FixedClear

\* The Fixed sketch with the Clear Data button: the sensor task appends on
\* one core while the handler clears on the other.
SpecFixed == InitFixed /\ [][NextFixed]_vars

\* The two sketches with the inactivity timeout on the clock: the sensor
\* task samples, waits and tests for deep sleep while the user touches the
\* screen and changes settings, which are saved.
NextSleep ==
  \/ Setup
  \/ ReadTemperatures
  \/ StoreSlot
  \/ AdvanceIndex
  \/ IncrementCount
  \/ SaveData
  \/ Delay
  \/ DelayDone
  \/ SleepTest
  \/ SleepStart
  \/ TouchIcon
  \/ ChangeSetting
  \/ saveSettings
  \/ FixedSetup
  \/ SensorTaskFixed
  \/ FixedSleepSwitch

SpecSleep == InitSettings /\ [][NextSleep]_vars

\* One sensor on the bus, in either sketch.
InitInterval ==
  /\ InitMain \/ InitFixed
  /\ deviceCount = 1

\* handleTouch() on the + or - of the interval row of the settings page.
IntervalTouch ==
  /\ ChangeSetting
  /\ lastTouch'.kind = "interval"

NextInterval ==
  \/ Setup
  \/ SensorTaskMain
  \/ IntervalTouch
  \/ saveSettings
  \/ FixedSetup
  \/ SensorTaskFixed
  \/ FixedIntervalSlider

\* The two sketches with the user changing the interval while the sensor
\* task samples and waits.
SpecInterval == InitInterval /\ [][NextInterval]_vars

NextRings ==
  \/ Setup
  \/ SensorTaskMain
  \/ FixedSetup
  \/ SensorTaskFixed
  \/ FixedClear

\* The stores of the two sketches and their writers: the sensor tasks
\* append step by step, and the Clear Data handler of the Fixed sketch runs
\* between any two steps.
SpecRings == (InitMain \/ InitFixed) /\ [][NextRings]_vars

\* The main sketch on a device whose file system may fail to mount.
InitBoot ==
  /\ InitCommon
  /\ sketch = "main"
  /\ stackJunk = 0
  /\ sPc = "setup"
  /\ fPc = "off"
  /\ prefs = NoPrefs
  /\ settingsFile = FALSE
  /\ spiffsPlan \in MountPlans

NextBoot ==
  \/ Setup
  \/ SensorTaskMain

\* Start-up with a file system that mounts at once, after the format, or
\* not at all, and the sensor task that follows.
SpecBoot == InitBoot /\ [][NextBoot]_vars

\* The main sketch with the table screen: the sensor task appends while the
\* display task redraws the table and handles the touches of its arrows
\* and of the Table button.
NextTable ==
  \/ Setup
  \/ SensorTaskMain
  \/ DrawTable
  \/ TableScroll
  \/ EnterTable

SpecTable == InitMain /\ [][NextTable]_vars

\* The main sketch with loadData() called once while setup runs: the
\* sensor task writes the log, a deep sleep or a power failure during
\* saveData() resets the device, and the log is replayed into the ring
\* store.
NextLog ==
  \/ Setup
  \/ Replay
  \/ SensorTaskMain
  \/ SaveDataTorn
  \/ PowerReturns

SpecLog == InitMain /\ [][NextLog]_vars

(***************************************************************************)
(* Properties                                                              *)
(***************************************************************************)
\* The sensor task of the main sketch is not between the store into the
\* slot and the update of the count.
Quiet == sketch = "main" /\ sPc \notin {"advance", "count"}

\* The sensor task of the Fixed sketch is not inside an append to channel i.
FixedQuiet(i) ==
  /\ sketch = "fixed"
  /\ ~(fI = i /\ fPc \in {"incIndex", "wrap", "overflow", "incCount"})

\* The k-th oldest retained entry as (cursor, count) locate it, k from 0.
Retained(k) ==
  dataBuffer[(dataBufferIndex - dataBufferCount + k + DATA_BUFFER_SIZE)
               % DATA_BUFFER_SIZE]

FixedRetained(i, k) ==
  tempData.data[i][(tempData.currentDataIndex[i] - tempData.dataCount[i] + k
                      + MAX_DATA_POINTS) % MAX_DATA_POINTS]

\* C1: after N appends to the empty store of capacity C the count is
\* min(N, C), and the count never exceeds C, in the main sketch's
\* dataBuffer and in every channel of the Fixed sketch.
C1_CountIsMin ==
  /\ dataBufferCount <= DATA_BUFFER_SIZE
  /\ Quiet => dataBufferCount = Min(Len(appended), DATA_BUFFER_SIZE)
  /\ \A i \in Channels :
       /\ tempData.dataCount[i] <= MAX_DATA_POINTS
       /\ FixedQuiet(i) =>
            tempData.dataCount[i] = Min(Len(fAccepted[i]), MAX_DATA_POINTS)

C1_Witness ==
  /\ sketch = "main"
  /\ sPc = "save"
  /\ Len(appended) > DATA_BUFFER_SIZE
  /\ dataBufferCount = DATA_BUFFER_SIZE

\* C2: the retained samples are recoverable from (cursor, count): slot
\* (cursor - count + k) mod C holds the k-th oldest retained sample, and
\* the retained samples are the last min(N, C) appended, in append order.
C2_Recoverable ==
  /\ Quiet =>
       /\ dataBufferCount = Min(Len(appended), DATA_BUFFER_SIZE)
       /\ \A k \in 0 .. dataBufferCount - 1 :
            Retained(k) = appended[Len(appended) - dataBufferCount + k + 1]
  /\ \A i \in Channels :
       FixedQuiet(i) =>
         /\ tempData.dataCount[i] = Min(Len(fAccepted[i]), MAX_DATA_POINTS)
         /\ \A k \in 0 .. tempData.dataCount[i] - 1 :
              FixedRetained(i, k) =
                fAccepted[i][Len(fAccepted[i]) - tempData.dataCount[i] + k + 1]

C2_Witness ==
  /\ sketch = "main"
  /\ sPc = "delay"
  /\ Len(appended) > DATA_BUFFER_SIZE
  /\ dataBufferIndex > 0
  /\ Retained(0) = appended[Len(appended) - DATA_BUFFER_SIZE + 1]
  /\ Retained(0) = dataBuffer[dataBufferIndex]

\* C3: an append writes the new sample into the slot at the write cursor,
\* advances the cursor by one modulo C and leaves every other slot as it
\* was; on a full store the replaced slot held the oldest retained sample
\* and the count stays C.  Every cycle's sample is appended.
C3_AppendEffect ==
  /\ (sketch = "main" /\ sPc = "save") =>
       /\ Len(appended) = bootCycles
       /\ dataBuffer[before.idx] = newData
       /\ \A s \in Slots \ {before.idx} : dataBuffer[s] = before.buf[s]
       /\ dataBufferIndex = (before.idx + 1) % DATA_BUFFER_SIZE
       /\ before.cnt < DATA_BUFFER_SIZE => dataBufferCount = before.cnt + 1
       /\ before.cnt = DATA_BUFFER_SIZE =>
            /\ dataBufferCount = DATA_BUFFER_SIZE
            /\ before.buf[before.idx] =
                 appended[Len(appended) - DATA_BUFFER_SIZE]
  /\ (sketch = "fixed" /\ fPc = "loop" /\ fI > 0
        /\ fRead[fI - 1] # DEVICE_DISCONNECTED_C) =>
       LET i == fI - 1
           entry == fAccepted[i][Len(fAccepted[i])]
       IN  /\ tempData.data[i][fBefore.idx] = entry
           /\ entry.temperature = fRead[i]
           /\ \A s \in Slots \ {fBefore.idx} :
                tempData.data[i][s] = fBefore.data[s]
           /\ tempData.currentDataIndex[i] =
                (fBefore.idx + 1) % MAX_DATA_POINTS
           /\ fBefore.cnt < MAX_DATA_POINTS =>
                tempData.dataCount[i] = fBefore.cnt + 1
           /\ fBefore.cnt = MAX_DATA_POINTS =>
                /\ tempData.dataCount[i] = MAX_DATA_POINTS
                /\ fBefore.data[fBefore.idx] =
                     fAccepted[i][Len(fAccepted[i]) - MAX_DATA_POINTS]

C3_Witness ==
  /\ sketch = "main"
  /\ sPc = "save"
  /\ before.cnt = DATA_BUFFER_SIZE
  /\ dataBuffer[before.idx] = newData
  /\ dataBuffer[before.idx] # before.buf[before.idx]

\* C4: whatever the interleaving of an append with a chart traversal, the
\* timestamps the traversal reads are those of written samples, none twice,
\* in strict newest-to-oldest order.
C4_ReaderNeverTorn ==
  (sketch = "main" /\ dPc = "chart") =>
    /\ \A k \in 1 .. Len(chartSeen) :
         \E n \in 1 .. Len(appended) : appended[n].timestamp = chartSeen[k]
    /\ \A k \in 1 .. Len(chartSeen) - 1 : chartSeen[k] > chartSeen[k + 1]

\* The retained samples in append order, and those of them in the window.
RetainedAscending ==
  Last(appended, Min(Len(appended), DATA_BUFFER_SIZE))

WindowAscending(startTime, now) ==
  SelectSeq(RetainedAscending, LAMBDA d : InWindow(d, startTime, now))

C6_TablePage ==
  Quiet =>
    \A o \in 0 .. DATA_BUFFER_SIZE :
      \A row \in 0 .. TABLE_ROWS - 1 :
        TableRow(o, row) =
          IF o + row < Min(Len(appended), DATA_BUFFER_SIZE)
            THEN appended[Len(appended) - (o + row)]
            ELSE Blank

C6_Witness ==
  /\ Quiet
  /\ Len(appended) > DATA_BUFFER_SIZE
  /\ dataBufferIndex > 0
  /\ TableRow(1, 0) = appended[Len(appended) - 1]
  /\ TableRow(1, 1) = appended[Len(appended) - 2]
  /\ TableRow(DATA_BUFFER_SIZE - 1, 1) = Blank

\* C7: after a wake from deep sleep, once setup has completed, the ring
\* store holds the newest min(N, C) of the N samples committed to the log
\* before the restart, in order.
C7_RestoredAfterRestart ==
  (sketch = "main" /\ restarts > 0 /\ sPc = "read" /\ bootCycles = 0) =>
    /\ dataBufferCount = Min(Len(committed), DATA_BUFFER_SIZE)
    /\ \A k \in 0 .. dataBufferCount - 1 :
         Retained(k) = committed[Len(committed) - dataBufferCount + k + 1]

\* C8: replaying with loadData the file that saveData wrote reproduces the
\* sequence of samples written, every active channel's reading included.
C8_RoundTrip ==
  (replayed /\ sPc = "setup") =>
    /\ dataBufferCount = Min(Len(committed), DATA_BUFFER_SIZE)
    /\ \A k \in 0 .. dataBufferCount - 1 :
         LET written == committed[Len(committed) - dataBufferCount + k + 1]
         IN  /\ Retained(k).timestamp = written.timestamp
             /\ \A i \in 0 .. deviceCount - 1 :
                  Retained(k).temperatures[i] = written.temperatures[i]

\* C9 (state part): when saveData has returned, whatever its outcome, the
\* ring store has gained this cycle's sample as its newest entry.
C9_Appended ==
  (sketch = "main" /\ sPc \in {"delay", "wait", "check"}) =>
    /\ lastSave \in {"ok", "failed"}
    /\ Len(appended) = bootCycles
    /\ appended[Len(appended)] = newData
    /\ dataBufferCount > 0
    /\ dataBuffer[RingIdx(dataBufferIndex, 0)] = newData

\* C9 (step part): the step of saveData, whatever its outcome, takes the
\* sensor task to its wait, and the wait to the next cycle or to sleep.
C9_GoesOn ==
  /\ (sPc = "save" /\ sPc' # sPc /\ ~oob') => sPc' \in {"delay", "setup"}
  /\ (sPc = "delay" /\ sPc' # sPc) => sPc' \in {"wait", "setup"}
  /\ (sPc = "wait" /\ sPc' # sPc) => sPc' \in {"check", "setup"}
  /\ (sPc = "check" /\ sPc' # sPc) => sPc' \in {"read", "setup"}

\* C9: a failure of saveData never prevents the in-memory append of the
\* cycle nor the sensor task going on to its next wait.
C9_SaveFailureHarmless == [](C9_Appended) /\ [][C9_GoesOn]_vars

C9_Witness ==
  /\ sketch = "main"
  /\ sPc = "delay"
  /\ lastSave = "ok"
  /\ restarts = 0
  /\ faults > 0
  /\ Len(committed) < Len(appended)

\* C10: every acquisition cycle produces one sample with an entry for
\* every active channel, a disconnected read being recorded as
\* disconnected, in the main sketch and in the Fixed sketch.
C10_EntryPerChannel ==
  /\ (sketch = "main" /\ sPc = "save") =>
       /\ Len(appended) = bootCycles
       /\ appended[Len(appended)] = newData
  /\ (sketch = "fixed" /\ fPc = "ready") =>
       \A i \in 0 .. tempData.sensorCount - 1 :
         /\ Len(fAccepted[i]) = bootCycles
         /\ fAccepted[i][Len(fAccepted[i])].temperature = fRead[i]
         /\ tempData.data[i][(tempData.currentDataIndex[i] - 1
                               + MAX_DATA_POINTS) % MAX_DATA_POINTS]
              .temperature = fRead[i]

\* C11: a channel that was disconnected in a retained sample is never shown
\* as a number: it adds nothing to the chart's minimum and maximum, and its
\* table cell shows the placeholder.  In the main sketch the sample is the
\* k-th newest append; in the Fixed sketch it is the cycle that has just
\* ended, which the last filled row of the table shows.
C11_DisconnectedNeverNumeric ==
  /\ (Quiet /\ sensorCount <= MAX_SENSORS) =>
       /\ \A r \in TimeRange :
            DEVICE_DISCONNECTED_C \notin
              ChartValues(clock - RangeSeconds(r), clock)
       /\ \A k \in 0 .. Min(Len(appended), TABLE_ROWS) - 1 :
            \A i \in 0 .. sensorCount - 1 :
              appended[Len(appended) - k].temperatures[i]
                  = DEVICE_DISCONNECTED_C
                => TableCell(TableRow(0, k), i) = Placeholder
  /\ (sketch = "fixed" /\ fPc = "ready"
        /\ fRead[0] # DEVICE_DISCONNECTED_C) =>
       \A j \in 0 .. tempData.sensorCount - 1 :
         fRead[j] = DEVICE_DISCONNECTED_C
           => FixedTableCell(FixedTableRows - 1, j) = Placeholder

\* C12: when the sampling interval is made shorter while the sensor task
\* waits between two cycles (from 60 s to 10 s in the claim), the wait ends
\* after the new interval, not after the old one.  The clock stands still
\* during a wait, so the touch is made at the time the wait began.
C12_NewIntervalApplies ==
  LET shortened == /\ lastTouch.kind = "interval"
                   /\ lastTouch.inWait
                   /\ lastTouch.to < wakeAt - lastTouch.at
  IN  /\ (sketch = "main" /\ sPc = "check" /\ shortened)
           => clock = lastTouch.at + lastTouch.to
      /\ (sketch = "fixed" /\ fPc = "request" /\ shortened)
           => clock = lastTouch.at + lastTouch.to

\* The retention duration of the log (README, Data Storage: up to 30 days
\* with 1-minute sampling), and the records it holds at that rate.
RetainSeconds == (30 * 24 * 3600) \div RetainScale
RetainRecords == RetainSeconds \div 60

\* C13: the number of records of the persisted log is bounded in every
\* reachable state: it holds no more records than the retention duration
\* has sampling periods, and no record older than the retention duration.
C13_LogBounded ==
  /\ Len(file) <= RetainRecords
  /\ \A k \in 1 .. Len(file) :
       ParseTime(file[k].time) >= clock - RetainSeconds

\* The step is a run of loadSettings() (inside setup()).
LoadStep == sketch = "main" /\ sPc = "setup" /\ sPc' # "setup"

\* C14: settings round trip: a load performed after a completed save(s)
\* returns s in every field (WiFi and Bluetooth toggles, channel count,
\* interval, deep-sleep flag).
C14_LoadReturnsSaved ==
  [][(LoadStep /\ saved # << >>) => loaded' = saved]_vars

\* C15: a load from an absent settings store leaves every field at its
\* hard-coded default: interval 60 s, deep sleep enabled, and (Fixed
\* sketch) the battery calibration 3.0 V / 4.2 V.
C15_AbsentStoreGivesDefaults ==
  /\ (sketch = "main" /\ loaded # << >> /\ prefs = NoPrefs) =>
       /\ loaded[1].sampleInterval = 60
       /\ loaded[1].deepSleepEnabled
       /\ loaded[1].wifiEnabled
       /\ loaded[1].sensorCount = 0
  /\ (sketch = "fixed" /\ loaded # << >> /\ ~settingsFile) =>
       /\ loaded[1].sampleInterval = DEFAULT_SAMPLE_INTERVAL
       /\ loaded[1].deepSleepEnabled
       /\ loaded[1].batteryCalibration = <<300, 420>>

\* C16: whatever the durable settings store holds, after a load the
\* sampling interval lies in 10 .. 600 and the channel count in
\* 0 .. MAX_SENSORS.
C16_LoadedInRange ==
  loaded # << >> =>
    /\ loaded[1].sampleInterval \in 10 .. 600
    /\ loaded[1].sensorCount \in 0 .. MAX_SENSORS

\* C17: starting from an interval in 10 .. 600, every interval adjustment
\* by the user (the +10 / -10 touches of the main sketch, the interval
\* slider of the Fixed sketch) leaves the sampling interval in 10 .. 600.
C17_IntervalStaysInRange ==
  [][touches' # touches =>
       /\ sampleInterval \in 10 .. 600 => sampleInterval' \in 10 .. 600
       /\ settings.sampleInterval \in 10 .. 600
            => settings'.sampleInterval \in 10 .. 600]_vars

\* The minus button was touched with the interval at its lower limit.
C17_Witness ==
  /\ sketch = "main"
  /\ lastTouch.kind = "interval"
  /\ saveOld.sampleInterval = 10
  /\ sampleInterval = 10

\* C18: in every reachable state the number of active channels is at most
\* MAX_SENSORS, in both sketches, and no per-channel array has been indexed
\* at MAX_SENSORS or above, whatever number of devices the bus reports.
C18_ChannelsBounded ==
  /\ sensorCount <= MAX_SENSORS
  /\ tempData.sensorCount <= MAX_SENSORS
  /\ ~oob

\* C19: settings are saved on every change by the user: when a touch
\* handler that changed a setting has completed, the durable settings (what
\* a load would return) equal the settings in memory.
C19_SavedOnEveryChange ==
  /\ (sketch = "main" /\ dPc = "idle" /\ lastTouch.kind # "none") =>
       LoadSettings(prefs, InitialSettings) = MemSettings
  /\ (sketch = "fixed" /\ lastTouch.kind # "none") =>
       FixedLoadSettings(settingsFile, ZeroSettings) = settings

\* C20: saving the settings is atomic with respect to power loss: when
\* power is lost during a save, the next load returns either the settings
\* that were durable before the save began or the settings being saved,
\* never a mixture of the two.
C20_SaveAtomic ==
  [][(LoadStep /\ interrupted) => loaded'[1] \in {saveOld, saveNew}]_vars

\* C25: when the durable append of a sample fails, the failure is reported
\* to the caller: the state saveData() leaves the program in after a
\* failure differs from the state it leaves after a success (the task at
\* its delay, every variable of the program as it was).
C25_FailureReported ==
  [][(sketch = "main" /\ sPc = "save" /\ faults' # faults) =>
       <<sPc', ringVars', newData', settingsVars', radioVars', dPc'>>
         # <<"delay", ringVars, newData, settingsVars, radioVars, dPc>>]_vars

\* C27: in the Fixed sketch the overflow flag of a channel is set on the
\* first wraparound and stays set: when no append to channel i is in
\* progress, after N accepted readings since startup or the last clear
\* dataOverflow[i] is true if and only if N >= MAX_DATA_POINTS.
C27_OverflowIffFull ==
  \A i \in Channels :
    FixedQuiet(i) =>
      (tempData.dataOverflow[i] <=> Len(fAccepted[i]) >= MAX_DATA_POINTS)

\* C29: the Clear Data action resets count, cursor and overflow flag of
\* every channel to (0, 0, false), and from then until the next append to
\* a channel begins the chart and the table return no sample of it.
C29_ClearStep ==
  (lastTouch'.kind = "clear" /\ touches' # touches) =>
    \A i \in Channels :
      /\ tempData'.dataCount[i] = 0
      /\ tempData'.currentDataIndex[i] = 0
      /\ ~tempData'.dataOverflow[i]

C29_EmptyUntilAppend ==
  sketch = "fixed" =>
    \A i \in Channels :
      Len(fAccepted[i]) = 0 =>
        /\ FixedChartSeries(i) = << >>
        /\ i = 0 => FixedTableRows = 0

C29_ClearEmpties == [][C29_ClearStep]_vars /\ []C29_EmptyUntilAppend

\* drawMainScreen(), line 631: the main screen shows at most five channels.
MAIN_SCREEN_SENSORS == 5

\* drawMainScreen(), lines 635-642: the text of the live readout of channel
\* i; the float starts at 0.0 and is always drawn with one decimal.
MainReadout(i) ==
  LET temp == IF dataBufferCount > 0
                THEN dataBuffer[RingIdx(dataBufferIndex, 0)].temperatures[i]
                ELSE 0
  IN  <<Tenths(temp)>>

\* With a retained sample the readout is the newest appended reading.
C28_LatestShown ==
  (Quiet /\ sensorCount <= MAX_SENSORS /\ dataBufferCount > 0) =>
    \A i \in 0 .. Min(sensorCount, MAIN_SCREEN_SENSORS) - 1 :
      /\ Len(appended) > 0
      /\ MainReadout(i) = <<Tenths(appended[Len(appended)].temperatures[i])>>

\* With no retained sample the readout is the placeholder.
C28_EmptyShown ==
  (Quiet /\ sensorCount <= MAX_SENSORS /\ dataBufferCount = 0) =>
    \A i \in 0 .. Min(sensorCount, MAIN_SCREEN_SENSORS) - 1 :
      MainReadout(i) = Placeholder

\* C28: the live readout of the main screen shows for each channel the
\* reading of the most recently appended sample when the ring holds one, and
\* the placeholder for 'empty', never a number, when the ring holds none.
C28_LatestOrEmpty == C28_LatestShown /\ C28_EmptyShown

\* drawChartScreen(), lines 698 and 717-723: minTemp and maxTemp as the grid
\* and the plot use them, in 1/10 of the temperature unit so that the
\* padding tempRange * 0.1 is exact.  values are the readings the loop of
\* lines 701-712 compared; 1000 and -1000 are the starting values of line
\* 698.  The float rounding of the code is below 2^-16 degC for readings of
\* the sensor's range and cannot close a gap of tempRange * 0.2.
ChartAxis_NoFloor(values) ==
  LET lows == values \cup {1000 * TempUnit}
      highs == values \cup {(0 - 1000) * TempUnit}
      minTemp == CHOOSE v \in lows : \A w \in lows : v <= w
      maxTemp == CHOOSE v \in highs : \A w \in highs : v >= w
  IN  IF minTemp # 1000 * TempUnit /\ maxTemp # (0 - 1000) * TempUnit
        THEN [minTemp |-> 10 * minTemp - (maxTemp - minTemp),
              maxTemp |-> 10 * maxTemp + (maxTemp - minTemp)]
        ELSE [minTemp |-> 0, maxTemp |-> 50 * 10 * TempUnit]

ChartAxis(values) ==
  LET lows == values \cup {1000 * TempUnit}
      highs == values \cup {(0 - 1000) * TempUnit}
      minTemp == CHOOSE v \in lows : \A w \in lows : v <= w
      maxTemp == CHOOSE v \in highs : \A w \in highs : v >= w
      range == maxTemp - minTemp
      tempRange == IF 10 * range < TempUnit THEN TempUnit \div 10 ELSE range
  IN  IF minTemp # 1000 * TempUnit /\ maxTemp # (0 - 1000) * TempUnit
        THEN [minTemp |-> 10 * minTemp - tempRange,
              maxTemp |-> 10 * maxTemp + tempRange]
        ELSE [minTemp |-> 0, maxTemp |-> 50 * 10 * TempUnit]

\* Readings of the sensor's range: its two ends, the power-on value, and
\* three neighbours that differ by one step of the 12-bit resolution.
AxisSamples ==
  {(0 - 55) * TempUnit, TempFine - 25, TempFine, TempFine + 25,
   85 * TempUnit, 125 * TempUnit}

\* The axis of a window with the compared readings values: the fallback
\* range when there are none, and in every case a positive height.
AxisSound(values) ==
  LET axis == ChartAxis(values)
  IN  /\ values = {} => axis = [minTemp |-> 0, maxTemp |-> 50 * 10 * TempUnit]
      /\ axis.maxTemp - axis.minTemp > 0

\* Every set of sample readings gets a sound axis.
AxisSoundForSamples == \A values \in SUBSET AxisSamples : AxisSound(values)

\* C30: in drawChartScreen a window that is empty, or whose readings are all
\* disconnected, gets the fallback axis range [0, 50]; whatever readings the
\* window holds, the axis range after padding has maxTemp - minTemp > 0 and
\* the time span now - startTime is positive, so that no division of the
\* plot is a division by zero.
C30_AxisNeverDegenerate ==
  /\ AxisSoundForSamples
  /\ sketch = "main" =>
       \A r \in TimeRange :
         /\ AxisSound(ChartValues(clock - RangeSeconds(r), clock))
         /\ clock - (clock - RangeSeconds(r)) > 0

\* The chart is being drawn over a window that holds entries, all of their
\* readings disconnected.
C30_Witness ==
  /\ dPc = "chart"
  /\ \E r \in TimeRange :
       /\ ChartSeries(clock - RangeSeconds(r), clock) # << >>
       /\ ChartValues(clock - RangeSeconds(r), clock) = {}
       /\ sensorCount > 0

\* A line of the log is corrupt when it has no comma.
Corrupt(line) == ~line.comma

\* C24: the replay of the log skips every corrupt record (here a line cut
\* short before its comma) and goes on: after loadData() the ring store
\* holds the parsed lines of the sound records only, the newest
\* DATA_BUFFER_SIZE of the first ones read, and no entry for a corrupt one.
C24_CorruptSkipped ==
  (sketch = "main" /\ replayed /\ sPc = "setup" /\ file # << >>) =>
    LET sound == SelectSeq(file, LAMBDA line : ~Corrupt(line))
        n == Min(Len(sound), DATA_BUFFER_SIZE)
    IN  /\ dataBufferCount = n
        /\ \A k \in 0 .. n - 1 :
             dataBuffer[k].timestamp = ParseTime(sound[k + 1].time)

\* C26: in every reachable state the scroll offset of the table lies in
\* [0, max(0, count - rows)], rows being the number of rows the table shows,
\* whatever way scroll touches, redraws of the table and appends of the
\* sensor task interleave.
C26_OffsetClamped ==
  sketch = "main" =>
    /\ 0 <= tableScrollOffset
    /\ tableScrollOffset <= Max(0, dataBufferCount - TABLE_ROWS)

\* The table was scrolled down to its last page.
C26_Witness ==
  /\ tableScrollOffset > 0
  /\ tableScrollOffset = maxTableScroll
  /\ maxTableScroll = dataBufferCount - TABLE_ROWS

\* The positions of the sensor task inside readSensors() and saveData().
Acquiring == {"store", "advance", "count", "save"}

\* The step that suspends the device: esp_deep_sleep_start().
SleepStep == sketch = "main" /\ sPc = "sleep" /\ restarts' = restarts + 1

\* C21: the device is suspended only while the sampling scheduler is idle
\* and no persistence write is pending: at the step that enters deep sleep
\* the sensor task is not inside readSensors() or saveData(), and the
\* display task is not inside saveSettings().
C21_SleepOnlyWhenQuiescent ==
  [][SleepStep => (sPc \notin Acquiring /\ dPc \notin SaveSteps)]_vars

\* The sensor task's half of C21: it is never inside readSensors() or
\* saveData() at the step that enters deep sleep.
C21_SamplerIdleAtSleep == [][SleepStep => sPc \notin Acquiring]_vars

\* A touch was registered less than the timeout ago.
TouchedRecently ==
  lastTouch.kind # "none" /\ clock - lastTouch.at < DEEP_SLEEP_TIMEOUT

\* C23: the device never enters deep sleep in a state where the deep-sleep
\* setting is off, nor in one where a touch was registered within the last
\* 60 seconds.
C23_SleepRespectsSettingAndTouch ==
  [][SleepStep => (deepSleepEnabled /\ ~TouchedRecently)]_vars

\* At the test of line 210 the setting is on and no touch was registered
\* within the timeout: C23 for the moment of the test alone.
C23_TestRespectsSettingAndTouch ==
  [][(sketch = "main" /\ sPc = "check" /\ sPc' = "sleep")
       => (deepSleepEnabled /\ ~TouchedRecently)]_vars

\* The device has been up, and without a touch, for the timeout at time t.
IdleAt(t) ==
  /\ t - bootAt >= DEEP_SLEEP_TIMEOUT
  /\ lastTouch.kind # "none" => t - lastTouch.at >= DEEP_SLEEP_TIMEOUT

\* The main sketch's half of C22: when the sampling wait has ended with the
\* setting on and the device idle, the sensor task goes to sleep.
C22_MainStep ==
  (sketch = "main" /\ sPc = "check" /\ sPc' # "check"
     /\ deepSleepEnabled /\ IdleAt(clock)) => sPc' = "sleep"

\* The Fixed sketch's half of C22: when the sampling wait ends with the
\* setting on and the device idle, the device enters deep sleep.
C22_FixedStep ==
  (sketch = "fixed" /\ fPc = "wait" /\ fPc' # "wait"
     /\ settings.deepSleepEnabled /\ IdleAt(clock'))
    => restarts' = restarts + 1

\* C22: with deep sleep enabled, when no touch occurred for one minute the
\* device enters deep sleep at the latest when the sampling wait in progress
\* at the 60 s mark ends, in the main sketch and in the Fixed sketch.
C22_SleepsWhenIdle == [][C22_MainStep /\ C22_FixedStep]_vars

C22_MainSleepsWhenIdle == [][C22_MainStep]_vars

\* C33 (step): the log is written only by saveData(), after the cycle's
\* sample has become the newest entry of the ring store, and a write that
\* succeeds appends exactly one record, the line of that newest sample.
C33_WriteStep ==
  (sketch = "main" /\ file' # file) =>
    /\ sPc = "save"
    /\ bootCycles > 0
    /\ Len(appended) = bootCycles
    /\ dataBufferCount > 0
    /\ dataBuffer[RingIdx(dataBufferIndex, 0)] = appended[Len(appended)]
    /\ file' = Append(file, DataLine(appended[Len(appended)], sensorCount))

\* C33: acquisition is write-through, ring store first and log second: in
\* every cycle the sample is in the ring store before the log is written,
\* and a log write that succeeds appends exactly one record, which encodes
\* the newest sample of the ring store.
C33_RingThenLog == [][C33_WriteStep]_vars

\* Two cycles have written their record.
C33_Witness ==
  /\ sketch = "main"
  /\ sPc = "delay"
  /\ lastSave = "ok"
  /\ Len(file) >= 2
  /\ Len(appended) >= 2

\* C31: every active channel has a non-empty display name, "Sensor i+1"
\* when the user has not named it, once the settings are loaded and the bus
\* is searched, and after the channel count is changed.  Stated for the
\* main sketch, which has no control that names a channel.
C31_ActiveChannelsNamed ==
  (sketch = "main" /\ sPc \notin {"setup", "undefined"}) =>
    \A i \in Channels : i < sensorCount => sensorNames[i] = <<i + 1>>

\* C32 (step): what setup() has done when it returns.
C32_SetupStep ==
  (sketch = "main" /\ sPc = "setup" /\ sPc' # "setup") =>
    /\ spiffsPlan[1] => mount' = [begins |-> 1, formats |-> 0,
                                   mounted |-> TRUE]
    /\ ~spiffsPlan[1] => mount' = [begins |-> 2, formats |-> 1,
                                    mounted |-> spiffsPlan[2]]
    /\ ~oob' => (sPc' = "read" /\ dPc' = "idle")

\* C32: when the storage cannot be mounted at start-up, setup() formats it
\* and tries the mount again exactly once, and whatever the second attempt
\* gives it goes on to start the sensor task and the display task.
C32_MountRetriedOnce == [][C32_SetupStep]_vars

\* Both mounts failed and the sensor task has stored a sample.
C32_Witness ==
  /\ sketch = "main"
  /\ mount = [begins |-> 2, formats |-> 1, mounted |-> FALSE]
  /\ dPc = "idle"
  /\ sPc = "delay"
  /\ dataBufferCount > 0

\* C34: loadData on a log of N lines leaves count = min(N, C) and, when
\* N > C, the newest C lines of the log, oldest first, with the cursor just
\* past the newest.
C34_ReplayKeepsNewest ==
  (sketch = "main" /\ sPc = "setup" /\ replayed) =>
    LET n == Min(Len(file), DATA_BUFFER_SIZE)
    IN  /\ dataBufferCount = n
        /\ dataBufferIndex = n % DATA_BUFFER_SIZE
        /\ \A k \in 0 .. n - 1 :
             dataBuffer[RingIdx(dataBufferIndex, n - 1 - k)]
               = ParseLine(file[Len(file) - n + k + 1])

\* C35 (step): the wait of the sensor task, in the main sketch and in the
\* Fixed sketch.  The clock stands still while the task waits.
C35_WaitStep ==
  /\ (sketch = "main" /\ sPc = "delay" /\ sPc' = "wait") =>
       wakeAt' = clock + sampleInterval
  /\ (sketch = "main" /\ sPc = "wait") =>
       /\ sPc' = "wait" => (wakeAt' = wakeAt /\ clock' = clock)
       /\ sPc' = "check" => clock' = wakeAt
  /\ (sketch = "fixed" /\ fPc = "ready" /\ fPc' = "wait") =>
       wakeAt' = clock + settings.sampleInterval
  /\ (sketch = "fixed" /\ fPc = "wait") =>
       /\ fPc' = "wait" => (wakeAt' = wakeAt /\ clock' = clock)
       /\ fPc' = "request" => clock' = wakeAt

\* C35: each wait between two cycles lasts the value the interval has when
\* the wait begins: a change made before a wait begins governs that wait and
\* the later ones, a change made during a wait leaves that wait as it is,
\* and the task is not restarted.
C35_WaitIsIntervalAtStart == [][C35_WaitStep]_vars

\* The interval was changed before a wait began, and that wait has ended
\* after the new interval.
C35_Witness ==
  /\ lastTouch.kind = "interval"
  /\ ~lastTouch.inWait
  /\ lastTouch.to # DEFAULT_SAMPLE_INTERVAL
  /\ lastTouch.at + lastTouch.to = clock
  /\ \/ /\ sketch = "main"
        /\ sPc = "check"
        /\ loaded[1].sampleInterval # lastTouch.to
     \/ sketch = "fixed" /\ fPc = "request"

\* The retained samples of the window in which channel s is disconnected.
Gaps(s, startTime, now) ==
  {k \in 1 .. dataBufferCount :
     /\ InWindow(Traversal[k], startTime, now)
     /\ Traversal[k].temperatures[s] = DEVICE_DISCONNECTED_C}

\* C36: no segment of a channel's chart line joins two points when a
\* retained sample of the window that lies between them in time has the
\* channel disconnected, and two present readings that follow one another
\* in the window are joined: the line breaks at the gap and starts again at
\* the next present reading.
C36_LineBrokenAtGaps ==
  (Quiet /\ sensorCount <= MAX_SENSORS) =>
    \A r \in TimeRange :
      \A s \in 0 .. sensorCount - 1 :
        LET startTime == clock - RangeSeconds(r)
            segments == ChartSegments(s, startTime, clock)
            series == ChartSeries(startTime, clock)
        IN  /\ \A seg \in segments :
                 \A k \in Gaps(s, startTime, clock) :
                   ~(/\ Traversal[k].timestamp > Min(seg[1], seg[2])
                     /\ Traversal[k].timestamp < Max(seg[1], seg[2]))
            /\ \A k \in 1 .. Len(series) - 1 :
                 (/\ series[k].temperatures[s] # DEVICE_DISCONNECTED_C
                  /\ series[k + 1].temperatures[s] # DEVICE_DISCONNECTED_C)
                   => <<series[k].timestamp, series[k + 1].timestamp>>
                        \in segments

\* Channel 0 was present, then disconnected, then present again, all three
\* samples are in the one-hour window, and no segment is drawn.
C36_Witness ==
  /\ Quiet
  /\ sensorCount \in 1 .. MAX_SENSORS
  /\ dataBufferCount >= 3
  /\ LET startTime == clock - RangeSeconds("ONE_HOUR")
         series == ChartSeries(startTime, clock)
     IN  /\ Len(series) >= 3
         /\ series[1].temperatures[0] # DEVICE_DISCONNECTED_C
         /\ series[2].temperatures[0] = DEVICE_DISCONNECTED_C
         /\ series[3].temperatures[0] # DEVICE_DISCONNECTED_C
         /\ <<series[1].timestamp, series[3].timestamp>>
              \notin ChartSegments(0, startTime, clock)

\* C37: every slot index a reader or saveData computes from the cursor and
\* the count of a reachable state, an append partly done included, lies in
\* 0 .. C - 1: (dataBufferIndex - i - 1 + C) % C for 0 <= i < count in the
\* main sketch, (currentDataIndex - k + C) % C for 1 <= k <= dataCount in
\* the Fixed sketch.
C37_SlotIndexInRange ==
  ~oob =>
    /\ sketch = "main" =>
         /\ SlotIndex(dataBufferIndex, 0) \in Slots
         /\ \A i \in 0 .. dataBufferCount - 1 :
              SlotIndex(dataBufferIndex, i) \in Slots
    /\ sketch = "fixed" =>
         \A c \in Channels :
           \A k \in 1 .. tempData.dataCount[c] :
             FixedSlotIndex(tempData.currentDataIndex[c], k) \in Slots

\* The Fixed sensor task has moved the cursor of a full ring past the last
\* slot and has not yet reset it.
C37_Witness ==
  /\ sketch = "fixed"
  /\ ~oob
  /\ fPc = "wrap"
  /\ tempData.currentDataIndex[fI] = MAX_DATA_POINTS
  /\ tempData.dataCount[fI] = MAX_DATA_POINTS
  /\ FixedSlotIndex(tempData.currentDataIndex[fI], MAX_DATA_POINTS) = 0

\* C38: whenever no append is in progress the store is structurally
\* consistent: count < C implies cursor = count, and in the Fixed sketch
\* dataOverflow[i] is true exactly when dataCount[i] = C; also after the
\* Clear Data handler ran between two steps of an append.
C38_StoreConsistent ==
  /\ Quiet =>
       (dataBufferCount < DATA_BUFFER_SIZE
          => dataBufferIndex = dataBufferCount)
  /\ \A i \in Channels :
       FixedQuiet(i) =>
         /\ tempData.dataCount[i] < MAX_DATA_POINTS
              => tempData.currentDataIndex[i] = tempData.dataCount[i]
         /\ tempData.dataOverflow[i]
              <=> tempData.dataCount[i] = MAX_DATA_POINTS

\* C39: in the table of the Fixed sketch every row is one sampling cycle: a
\* cell that shows a number shows a reading that was acquired in the cycle
\* of the row's timestamp, which is channel 0's.
C39_RowIsOneCycle ==
  (sketch = "fixed" /\ fPc = "ready" /\ ~oob) =>
    \A i \in 0 .. FixedTableRows - 1 :
      \A j \in 0 .. tempData.sensorCount - 1 :
        FixedTableCell(i, j) # Placeholder =>
          tempData.data[j][FixedDataIndex(i)].timestamp
            = tempData.data[0][FixedDataIndex(i)].timestamp

\* C40: in the main sketch a number that the chart or the table uses for
\* channel i of a retained sample was read from channel i in that sample's
\* cycle.  A read of a channel with no device behind it returns the
\* disconnected marker, so such a channel never shows a number, also after
\* the channel count was raised in the settings.
C40_ShownWasRead ==
  (Quiet /\ ~oob /\ sensorCount <= MAX_SENSORS) =>
    \A k \in 1 .. dataBufferCount :
      \A i \in 0 .. sensorCount - 1 :
        /\ TableCell(Traversal[k], i) # Placeholder => i < deviceCount
        /\ \A r \in TimeRange :
             (/\ InWindow(Traversal[k], clock - RangeSeconds(r), clock)
              /\ Traversal[k].temperatures[i] # DEVICE_DISCONNECTED_C)
               => i < deviceCount
====
